---------------------------- MODULE Spec2Model ----------------------------
(***************************************************************************)
(* Model of the Mender MCU deployment-service client (mender-api.c), the   *)
(* artifact download entry point (mender-artifact-download.c) and the      *)
(* helpers of mender-utils.c they use.                                     *)
(*                                                                         *)
(* Conventions.  A C pointer is an option: NULL is the empty sequence and  *)
(* a non-null pointer to x is <<x>>.  A C string or byte buffer is a       *)
(* sequence of characters (TLA+ strings of length one or member symbols);  *)
(* NUL is the zero byte.  The HTTP transport, the TLS backend, the         *)
(* storage and the artifact parser are collaborators whose outcomes are    *)
(* inputs of the actions.  Memory allocation succeeds, except malloc(0),   *)
(* which may return NULL.  Each API call is one action; its result is kept *)
(* in the observation `last` until the caller takes it (Return).           *)
(***************************************************************************)
EXTENDS Integers, Sequences, FiniteSets, TLC

VARIABLES
    api_state,          \* position of the API client: "uninit" (no successful
                        \* mender_api_init yet), "init", "exit" (after
                        \* mender_api_exit), "abort" (an assertion failed)
    mender_api_config,  \* static mender_api_config (device_type, tenant_token)
    mender_api_jwt,     \* static char *mender_api_jwt
    artifact_name,      \* static char *artifact_name
    mender_artifact_ctx,\* the artifact parser's context (mender_artifact_get_ctx)
    last,               \* observation of the most recent API call
    client,             \* the deployment state machine that drives the API,
                        \* the persistent storage and what the server received
    util                \* the data a utility function of mender-utils.c works on

\* the variables of the API client
api_vars == <<api_state, mender_api_config, mender_api_jwt, artifact_name,
              mender_artifact_ctx, last>>

vars == <<api_state, mender_api_config, mender_api_jwt, artifact_name,
          mender_artifact_ctx, last, client, util>>

-----------------------------------------------------------------------------
(* Bounds of the model *)

\* longest response body (in characters) the authentication server sends
MaxBodyLen == 2

\* longest artifact (in characters) a download delivers
MaxArtifactLen == 2

-----------------------------------------------------------------------------
(* Pointers, error codes, strings *)

NULL == <<>>
Some(x) == <<x>>
Val(p) == p[1]

MENDER_OK == "MENDER_OK"
MENDER_FAIL == "MENDER_FAIL"
MENDER_NOT_FOUND == "MENDER_NOT_FOUND"

\* the zero byte
NUL == "NUL"

\* strlen: number of characters before the first zero byte
strlen(buf) ==
    IF \E i \in 1..Len(buf) : buf[i] = NUL
    THEN (CHOOSE i \in 1..Len(buf) : buf[i] = NUL /\ \A j \in 1..(i - 1) : buf[j] # NUL) - 1
    ELSE Len(buf)

\* strdup: the copy holds the characters up to the first zero byte
strdup(buf) == SubSeq(buf, 1, strlen(buf))

RECURSIVE Flatten(_)
Flatten(chunks) ==
    IF chunks = <<>> THEN <<>> ELSE Head(chunks) \o Flatten(Tail(chunks))

-----------------------------------------------------------------------------
(* HTTP events and the text callback *)

Connected == [type |-> "CONNECTED", data |-> NULL]
DataReceived(d) == [type |-> "DATA_RECEIVED", data |-> d]
Disconnected == [type |-> "DISCONNECTED", data |-> NULL]
Error == [type |-> "ERROR", data |-> NULL]
UnknownEvent == [type |-> "UNKNOWN", data |-> NULL]

\* a text callback that keeps the last chunk only: the callback that
\* C4_AuthenticationOkOn200WithBody rules out
mender_api_http_text_callback_overwrite(event, response) ==
    IF event.type = "DATA_RECEIVED"
    THEN IF event.data = NULL \/ Len(Val(event.data)) = 0
         THEN [ret |-> MENDER_FAIL, response |-> response]
         ELSE [ret |-> MENDER_OK, response |-> event.data]
    ELSE [ret |-> IF event.type \in {"CONNECTED", "DISCONNECTED"} THEN MENDER_OK ELSE MENDER_FAIL,
          response |-> response]

\* mender_api_http_text_callback: params is the response pointer; the result is
\* the return code and the new value of *response
mender_api_http_text_callback(event, response) ==
    CASE event.type = "CONNECTED" ->
            [ret |-> MENDER_OK, response |-> response]
      [] event.type = "DATA_RECEIVED" ->
            IF event.data = NULL \/ Len(Val(event.data)) = 0
            THEN [ret |-> MENDER_FAIL, response |-> response]
            ELSE LET old == IF response # NULL THEN Val(response) ELSE <<>>
                     response_length == strlen(old)
                 IN  [ret |-> MENDER_OK,
                      response |-> Some(SubSeq(old, 1, response_length) \o Val(event.data))]
      [] event.type = "DISCONNECTED" ->
            [ret |-> MENDER_OK, response |-> response]
      [] event.type = "ERROR" ->
            [ret |-> MENDER_FAIL, response |-> response]
      [] OTHER ->
            [ret |-> MENDER_FAIL, response |-> response]

\* The HTTP client delivers the events of one exchange to the text callback, in
\* order, and stops at the first event the callback rejects.
RECURSIVE DeliverText(_, _)
DeliverText(events, response) ==
    IF events = <<>>
    THEN [ret |-> MENDER_OK, response |-> response]
    ELSE LET r == mender_api_http_text_callback(Head(events), response)
         IN  IF r.ret # MENDER_OK THEN r ELSE DeliverText(Tail(events), r.response)

\* A request as the HTTP client receives it
Request(op, jwt, method, path, payload, signature) ==
    [op |-> op, jwt |-> jwt, method |-> method, path |-> path,
     payload |-> payload, signature |-> signature]

\* mender_http_perform with the text callback.  reply is what the network and
\* the server do: reply.connect says whether the exchange takes place at all,
\* reply.events are the events delivered, reply.status the HTTP status.
mender_http_perform(reply, response) ==
    IF ~reply.connect
    THEN [ret |-> MENDER_FAIL, status |-> 0, response |-> response]
    ELSE LET d == DeliverText(reply.events, response)
         IN  IF d.ret # MENDER_OK
             THEN [ret |-> MENDER_FAIL, status |-> 0, response |-> d.response]
             ELSE [ret |-> MENDER_OK, status |-> reply.status, response |-> d.response]


-----------------------------------------------------------------------------
(* What the network and the servers can do *)

\* HTTP statuses the servers answer with
Statuses == {200, 204, 401, 404, 500}

\* characters of a session token
TokenChars == {"a", "b"}

\* non-empty strings over cs of at most n characters
Strings(cs, n) == UNION {[1..k -> cs] : k \in 1..n}

\* the ways a body of at most n characters arrives as non-empty chunks
ChunkSeqs(cs, n) ==
    {<<>>} \cup
    {c \in UNION {[1..k -> Strings(cs, n)] : k \in 1..n} : Len(Flatten(c)) <= n}

\* the data events of a chunk sequence
RECURSIVE DataEvents(_)
DataEvents(chunks) ==
    IF chunks = <<>> THEN <<>>
    ELSE <<DataReceived(Some(Head(chunks)))>> \o DataEvents(Tail(chunks))

\* the exchanges that run to the end: the connection, the chunks of the body,
\* the disconnection
CompleteEvents(chunkSeqs) ==
    {<<Connected>> \o DataEvents(c) \o <<Disconnected>> : c \in chunkSeqs}

\* the exchanges that go wrong after at most one chunk: a data event without
\* data, a transport error, or an event the client does not know
BrokenEvents(chunkSeqs) ==
    {<<Connected>> \o DataEvents(c) \o <<bad, Disconnected>> :
        c \in {x \in chunkSeqs : Len(x) <= 1},
        bad \in {DataReceived(NULL), DataReceived(Some(<<>>)), Error, UnknownEvent}}

NoConnection == [connect |-> FALSE, events |-> <<>>, status |-> 0]

\* the replies to a request whose body arrives as one of chunkSeqs: no exchange
\* at all, a complete exchange with any status, or a broken one
Replies(chunkSeqs) ==
    {NoConnection}
    \cup [connect : {TRUE}, events : CompleteEvents(chunkSeqs), status : Statuses]
    \cup [connect : {TRUE}, events : BrokenEvents(chunkSeqs), status : {200}]

AuthReplies == Replies(ChunkSeqs(TokenChars, MaxBodyLen))

-----------------------------------------------------------------------------
(* Observation of an API call *)

NoDeployment ==
    [id |-> NULL, artifact_name |-> NULL, uri |-> NULL,
     device_types_compatible |-> NULL, device_types_compatible_size |-> 0]

\* the client's variables when a call begins
Snapshot ==
    [api_state |-> api_state, mender_api_config |-> mender_api_config,
     mender_api_jwt |-> mender_api_jwt, artifact_name |-> artifact_name,
     mender_artifact_ctx |-> mender_artifact_ctx]

NoSnapshot ==
    [api_state |-> "uninit", mender_api_config |-> [device_type |-> "dev-A", tenant_token |-> NULL],
     mender_api_jwt |-> NULL, artifact_name |-> NULL, mender_artifact_ctx |-> NULL]

\* an observation with the arguments of the call and the variables it began with
Seen(obs, args) == [obs EXCEPT !.args = args, !.before = Snapshot]

\* op: the function called; ret: its return value; requests: the requests it
\* handed to the HTTP client, in order; http: the result (ret, status) of each;
\* response: the response buffer when the status was examined; deployment: the
\* caller's descriptor on return; parsed: the chunks handed to the artifact
\* parser, in order; update_module: the caller's update module on return;
\* held: the JSON values and response buffers the call acquired and did not
\* release before it returned (free(response) and cJSON_Delete at END release
\* the others);
\* args: the arguments of the call; before: the variables when it began
Obs(op, ret, requests, http, response, deployment) ==
    [op |-> op, ret |-> ret, requests |-> requests, http |-> http,
     response |-> response, deployment |-> deployment,
     parsed |-> <<>>, update_module |-> NULL, held |-> {},
     args |-> <<>>, before |-> NoSnapshot]

NoCall == Obs("none", MENDER_OK, <<>>, <<>>, NULL, NoDeployment)

\* the result of one exchange, with what the network did in it
Http(h, reply) == [ret |-> h.ret, status |-> h.status, reply |-> reply]

\* no call is in progress: the caller has taken the result of the previous one
Idle == last = NoCall

\* the caller takes the result of the call and goes on
Return ==
    /\ ~Idle
    /\ api_state # "abort"
    /\ last' = NoCall
    \* a context the call created is from now on one of an earlier call
    /\ mender_artifact_ctx' =
            IF mender_artifact_ctx = NULL THEN NULL
            ELSE Some([Val(mender_artifact_ctx) EXCEPT !.made = "earlier"])
    /\ UNCHANGED <<api_state, mender_api_config, mender_api_jwt, artifact_name>>
    /\ UNCHANGED <<client, util>>

-----------------------------------------------------------------------------
(* mender_api_init, mender_api_is_authenticated, mender_api_exit *)

Configs == [device_type : {"dev-A"}, tenant_token : {NULL, Some("tenant")}]

\* outcomes of mender_storage_get_artifact_name: on success the name is stored
\* through the pointer, otherwise the pointer is left as it was
StorageNames ==
    {[ret |-> MENDER_OK, name |-> Some("fw-1")],
     [ret |-> MENDER_FAIL, name |-> NULL],
     [ret |-> MENDER_NOT_FOUND, name |-> NULL]}

mender_api_init_result(name_before, stored, http_init) ==
    LET name == IF stored.ret = MENDER_OK THEN stored.name ELSE name_before
    IN  IF stored.ret # MENDER_OK /\ name # NULL
        THEN [ret |-> MENDER_FAIL, artifact_name |-> name, saved |-> FALSE]
        ELSE [ret |-> http_init, artifact_name |-> name, saved |-> TRUE]

mender_api_init ==
    /\ Idle
    /\ api_state \in {"uninit", "exit"}
    /\ \E config \in Configs, stored \in StorageNames, http_init \in {MENDER_OK, MENDER_FAIL} :
        LET r == mender_api_init_result(artifact_name, stored, http_init)
        IN  /\ artifact_name' = r.artifact_name
            /\ mender_api_config' = IF r.saved THEN config ELSE mender_api_config
            /\ api_state' = IF r.ret = MENDER_OK THEN "init" ELSE "uninit"
            /\ last' = Seen(Obs("init", r.ret, <<>>, <<>>, NULL, NoDeployment), <<config>>)
    /\ UNCHANGED <<mender_api_jwt, mender_artifact_ctx>>
    /\ UNCHANGED <<client, util>>

mender_api_is_authenticated == NULL # mender_api_jwt

\* a release that leaves the token in place: the release that
\* C5_OneTokenReplacedAndCleared rules out
mender_api_exit_keeps_token ==
    /\ Idle
    /\ api_state \in {"uninit", "init", "exit"}
    /\ artifact_name' = NULL
    /\ api_state' = "exit"
    /\ last' = Seen(Obs("exit", MENDER_OK, <<>>, <<>>, NULL, NoDeployment), <<>>)
    /\ UNCHANGED <<mender_api_config, mender_api_jwt, mender_artifact_ctx>>
    /\ UNCHANGED <<client, util>>

mender_api_exit ==
    /\ Idle
    /\ api_state \in {"uninit", "init", "exit"}
    /\ mender_api_jwt' = NULL
    /\ artifact_name' = NULL
    /\ api_state' = "exit"
    /\ last' = Seen(Obs("exit", MENDER_OK, <<>>, <<>>, NULL, NoDeployment), <<>>)
    /\ UNCHANGED <<mender_api_config, mender_artifact_ctx>>
    /\ UNCHANGED <<client, util>>

-----------------------------------------------------------------------------
(* mender_api_perform_authentication *)

MENDER_API_PATH_POST_AUTHENTICATION_REQUESTS == "/api/devices/v1/authentication/auth_requests"

\* the steps before the request that a collaborator can fail
AuthPreSteps == {"none", "public_key", "identity", "identity_json", "sign"}

public_key_pem == "PEM"
Identity == [name |-> "mac", value |-> "00:11"]

\* mender_tls_sign_payload: the signature of exactly these payload bytes
SignatureOf(payload) == <<"signature", payload>>

AuthPayload(config) ==
    [id_data |-> <<Identity.name, Identity.value>>,
     pubkey |-> public_key_pem,
     tenant_token |-> config.tenant_token]

\* an authentication that sends its request without a signature when the
\* payload could not be signed: the request that
\* C28_OnlyAuthenticationSignedOverPayload rules out
mender_api_perform_authentication_result_unsigned(config, jwt, pre, reply) ==
    IF pre \notin {"none", "sign"}
    THEN [ret |-> MENDER_FAIL, jwt |-> jwt, requests |-> <<>>, http |-> <<>>, response |-> NULL]
    ELSE LET payload == AuthPayload(config)
             request == Request("authentication", NULL, "POST",
                                MENDER_API_PATH_POST_AUTHENTICATION_REQUESTS,
                                Some(payload),
                                IF pre = "sign" THEN NULL ELSE Some(SignatureOf(payload)))
             h == mender_http_perform(reply, NULL)
         IN  [ret |-> IF h.ret = MENDER_OK /\ h.status = 200 /\ h.response # NULL
                      THEN MENDER_OK ELSE MENDER_FAIL,
              jwt |-> IF h.ret = MENDER_OK /\ h.status = 200 /\ h.response # NULL
                      THEN Some(strdup(Val(h.response))) ELSE jwt,
              requests |-> <<request>>, http |-> <<Http(h, reply)>>, response |-> h.response]

\* an authentication that drops the token it had when it does not get a new
\* one: the loss that C31_FailedAuthenticationKeepsToken rules out
mender_api_perform_authentication_result_drops_token(config, jwt, pre, reply) ==
    IF pre # "none"
    THEN [ret |-> MENDER_FAIL, jwt |-> NULL, requests |-> <<>>, http |-> <<>>, response |-> NULL]
    ELSE LET payload == AuthPayload(config)
             request == Request("authentication", NULL, "POST",
                                MENDER_API_PATH_POST_AUTHENTICATION_REQUESTS,
                                Some(payload), Some(SignatureOf(payload)))
             h == mender_http_perform(reply, NULL)
             got == h.ret = MENDER_OK /\ h.status = 200 /\ h.response # NULL
         IN  [ret |-> IF got THEN MENDER_OK
                      ELSE IF h.ret # MENDER_OK THEN h.ret ELSE MENDER_FAIL,
              jwt |-> IF got THEN Some(strdup(Val(h.response))) ELSE NULL,
              requests |-> <<request>>, http |-> <<Http(h, reply)>>, response |-> h.response]

\* the result of the call: ret, the new value of mender_api_jwt and the
\* observation of the exchange
mender_api_perform_authentication_result(config, jwt, pre, reply) ==
    IF pre # "none"
    THEN [ret |-> MENDER_FAIL, jwt |-> jwt, requests |-> <<>>, http |-> <<>>, response |-> NULL]
    ELSE LET payload == AuthPayload(config)
             request == Request("authentication", NULL, "POST",
                                MENDER_API_PATH_POST_AUTHENTICATION_REQUESTS,
                                Some(payload), Some(SignatureOf(payload)))
             h == mender_http_perform(reply, NULL)
             out(ret, j) == [ret |-> ret, jwt |-> j, requests |-> <<request>>,
                             http |-> <<Http(h, reply)>>, response |-> h.response]
         IN  IF h.ret # MENDER_OK THEN out(h.ret, jwt)
             ELSE IF h.status = 200
                  THEN IF h.response = NULL
                       THEN out(MENDER_FAIL, jwt)
                       ELSE out(MENDER_OK, Some(strdup(Val(h.response))))
                  ELSE out(MENDER_FAIL, jwt)

mender_api_perform_authentication ==
    /\ Idle
    /\ api_state = "init"
    /\ \E pre \in AuthPreSteps, reply \in AuthReplies :
        \* a call that fails before the request meets no reply
        /\ pre # "none" => reply = NoConnection
        /\ LET r == mender_api_perform_authentication_result(mender_api_config, mender_api_jwt, pre, reply)
           IN  /\ mender_api_jwt' = r.jwt
               /\ last' = Seen(Obs("perform_authentication", r.ret, r.requests, r.http,
                                    r.response, NoDeployment), <<pre>>)
    /\ UNCHANGED <<api_state, mender_api_config, artifact_name, mender_artifact_ctx>>
    /\ UNCHANGED <<client, util>>

-----------------------------------------------------------------------------
(* JSON bodies of the deployments API *)

(* A JSON text is written as the sequence of the members it holds:           *)
(*   "I"  "id": "d1"                                                         *)
(*   "A"  "artifact": {...}, whose members are the ones that follow:         *)
(*   "N"  "artifact_name": "fw-2"                                            *)
(*   "S"  "source": {...} and "U" its "uri": "https://a/x"                   *)
(*   "D"  "device_types_compatible": ["dev-A"]                               *)
(*   "M"  "device_types_compatible": [1, "dev-A"]  (an item is no string)    *)
(*   "Z"  "device_types_compatible": []                                      *)
(*   "Y"  "device_types_compatible": "dev-A"       (no array)                *)
(*   "E"  "error": "..."                                                     *)
(*   "#"  text that is not JSON                                              *)

ArtifactTexts ==
    {<<>>} \cup
    {<<"A">> \o n \o src \o d :
        n \in {<<>>, <<"N">>},
        src \in {<<>>, <<"S">>, <<"S", "U">>},
        d \in {<<>>, <<"D">>, <<"M">>, <<"Z">>, <<"Y">>}}

\* the bodies a 200 answer is tried with
DescriptorTexts == {i \o a : i \in {<<>>, <<"I">>}, a \in ArtifactTexts} \cup {<<"#">>}

FullDescriptor == <<"I", "A", "N", "S", "U", "D">>

\* the bodies the other answers are tried with
OtherTexts == {<<"E">>, FullDescriptor}

\* a body arrives whole or cut in two
Chunkings(text) ==
    IF text = <<>> THEN {<<>>}
    ELSE {<<text>>} \cup
         {<<SubSeq(text, 1, k), SubSeq(text, k + 1, Len(text))>> : k \in 1..(Len(text) - 1)}

\* every descriptor arrives whole, the full one also cut in two at every place
DeploymentReplies ==
    {NoConnection}
    \cup [connect : {TRUE},
          events : CompleteEvents({IF t = <<>> THEN <<>> ELSE <<t>> : t \in DescriptorTexts}
                                  \cup Chunkings(FullDescriptor)),
          status : {200}]
    \cup [connect : {TRUE},
          events : CompleteEvents({<<t>> : t \in OtherTexts} \cup {<<>>}),
          status : Statuses \ {200}]
    \cup [connect : {TRUE},
          events : BrokenEvents({<<>>, <<FullDescriptor>>}),
          status : {200}]

\* whether the body of a reply holds an empty "device_types_compatible" array
HasEmptyArray(reply) ==
    \E i \in 1..Len(reply.events) :
        /\ reply.events[i].data # NULL
        /\ \E j \in 1..Len(Val(reply.events[i].data)) : Val(reply.events[i].data)[j] = "Z"

\* cJSON_Parse: NULL when there is no text or the text is not JSON, otherwise
\* the set of members of the document
cJSON_Parse(response) ==
    IF response = NULL THEN NULL
    ELSE LET text == strdup(Val(response))
         IN  IF text = <<>> \/ \E i \in 1..Len(text) : text[i] = "#"
             THEN NULL
             ELSE Some({text[i] : i \in 1..Len(text)})

\* cJSON_GetObjectItem on the document and on its "artifact" and "source" objects
HasId(json) == "I" \in json
HasArtifact(json) == "A" \in json
HasArtifactName(json) == HasArtifact(json) /\ "N" \in json
HasSource(json) == HasArtifact(json) /\ "S" \in json
HasUri(json) == HasSource(json) /\ "U" \in json
HasDeviceTypes(json) == HasArtifact(json) /\ json \cap {"D", "M", "Z", "Y"} # {}
\* cJSON_IsArray on "device_types_compatible"
DeviceTypesIsArray(json) == HasArtifact(json) /\ json \cap {"D", "M", "Z"} # {}
\* the items of the array: a string item is <<value>>, any other item is NULL
DeviceTypesItems(json) ==
    IF "D" \in json THEN <<Some("dev-A")>>
    ELSE IF "M" \in json THEN <<NULL, Some("dev-A")>>
    ELSE <<>>

-----------------------------------------------------------------------------
(* mender_api_check_for_deployment *)

MENDER_API_PATH_GET_NEXT_DEPLOYMENT == "/api/devices/v1/deployments/device/deployments/next"
MENDER_API_PATH_POST_NEXT_DEPLOYMENT_V2 == "/api/devices/v2/deployments/device/deployments/next"

\* outcomes of mender_storage_get_provides (the build without provides/depends
\* sends what the build with it sends for an empty list)
ProvidesOutcomes ==
    {[ret |-> MENDER_OK, list |-> <<>>],
     [ret |-> MENDER_OK, list |-> <<<<"rootfs-image.version", "1">>>>],
     [ret |-> MENDER_OK, list |-> <<<<"rootfs-image.version", "1">>,
                                    <<"rootfs-image.version", "2">>>>],
     [ret |-> MENDER_OK, list |-> <<<<"artifact_name", "fw-0">>>>],
     [ret |-> MENDER_NOT_FOUND, list |-> <<>>],
     [ret |-> MENDER_FAIL, list |-> <<>>]}

\* what a check-for-deployment helper hands back: ret, *status, *response and
\* the requests it made
Exchange(ret, status, response, requests, http) ==
    [ret |-> ret, status |-> status, response |-> response,
     requests |-> requests, http |-> http]

api_check_for_deployment_v2(config, jwt, name, provides, reply) ==
    IF provides.ret = MENDER_FAIL
    THEN Exchange(MENDER_FAIL, 0, NULL, <<>>, <<>>)
    ELSE LET payload == [device_provides |->
                            <<<<"device_type", config.device_type>>>>
                            \o provides.list
                            \o <<<<"artifact_name", Val(name)>>>>]
             request == Request("check_for_deployment_v2", jwt, "POST",
                                MENDER_API_PATH_POST_NEXT_DEPLOYMENT_V2, Some(payload), NULL)
             h == mender_http_perform(reply, NULL)
         IN  Exchange(h.ret, h.status, h.response, <<request>>, <<Http(h, reply)>>)

\* a v1 request without the token: the request that
\* C6_ServiceRequestsCarryToken rules out
api_check_for_deployment_v1_without_token(config, jwt, name, response, reply) ==
    LET path == <<MENDER_API_PATH_GET_NEXT_DEPLOYMENT,
                  "?artifact_name=", Val(name), "&device_type=", config.device_type>>
        request == Request("check_for_deployment_v1", NULL, "GET", path, NULL, NULL)
        h == mender_http_perform(reply, response)
    IN  Exchange(h.ret, h.status, h.response, <<request>>, <<Http(h, reply)>>)

api_check_for_deployment_v1(config, jwt, name, response, reply) ==
    LET path == <<MENDER_API_PATH_GET_NEXT_DEPLOYMENT,
                  "?artifact_name=", Val(name), "&device_type=", config.device_type>>
        request == Request("check_for_deployment_v1", jwt, "GET", path, NULL, NULL)
        h == mender_http_perform(reply, response)
    IN  Exchange(h.ret, h.status, h.response, <<request>>, <<Http(h, reply)>>)

\* an array slot that malloc returned and nothing wrote
Uninitialized == Some("<uninitialized>")

\* lines 365-434: the treatment of a 200 answer.  malloc_zero_null is the
\* answer of malloc(0), which may be NULL.  held names what the treatment
\* acquired and did not release: the goto END of line 406 passes by the
\* cJSON_Delete of line 431.
TreatDescriptor(response, malloc_zero_null) ==
    LET parsed == cJSON_Parse(response)
    IN  IF parsed = NULL
        THEN [ret |-> MENDER_FAIL, deployment |-> NoDeployment, held |-> {}]
        ELSE
        LET json == Val(parsed)
            d_id == [NoDeployment EXCEPT !.id = IF HasId(json) THEN Some("d1") ELSE NULL]
        IN  IF ~HasArtifact(json)
            THEN [ret |-> MENDER_FAIL, deployment |-> d_id, held |-> {}]
            ELSE
            LET d_name == [d_id EXCEPT
                    !.artifact_name = IF HasArtifactName(json) THEN Some("fw-2") ELSE NULL]
                d_uri == [d_name EXCEPT
                    !.uri = IF HasUri(json) THEN Some("https://a/x") ELSE NULL]
                ret_uri == IF HasUri(json) THEN MENDER_OK ELSE MENDER_FAIL
                items == DeviceTypesItems(json)
                size == Len(items)
            IN  IF HasDeviceTypes(json) /\ DeviceTypesIsArray(json)
                THEN IF size = 0 /\ malloc_zero_null
                     THEN [ret |-> MENDER_FAIL,
                           deployment |-> [d_uri EXCEPT !.device_types_compatible_size = size],
                           held |-> {"json_response"}]
                     ELSE [ret |-> IF \E i \in 1..size : items[i] = NULL
                                   THEN MENDER_FAIL ELSE ret_uri,
                           deployment |-> [d_uri EXCEPT
                                !.device_types_compatible_size = size,
                                !.device_types_compatible =
                                    Some([i \in 1..size |->
                                            IF items[i] = NULL THEN Uninitialized ELSE items[i]])],
                           held |-> {}]
                ELSE [ret |-> MENDER_FAIL, deployment |-> d_uri, held |-> {}]

\* a treatment that takes 204 for a deployment: the treatment that
\* C3_OutcomeByFinalStatus rules out
TreatStatus_204_as_ok(status, response, malloc_zero_null) ==
    IF status = 200 THEN TreatDescriptor(response, malloc_zero_null)
    ELSE IF status = 204 THEN [ret |-> MENDER_OK, deployment |-> NoDeployment, held |-> {}]
    ELSE [ret |-> MENDER_FAIL, deployment |-> NoDeployment, held |-> {}]

\* a treatment that hands back an empty descriptor when it rejects the
\* answer: the clearing that C37_DescriptorKeptOnRejection rules out
TreatStatus_clears_on_failure(status, response, malloc_zero_null) ==
    IF status = 200
    THEN LET t == TreatDescriptor(response, malloc_zero_null)
         IN  IF t.ret = MENDER_OK THEN t ELSE [t EXCEPT !.deployment = NoDeployment]
    ELSE IF status = 204 THEN [ret |-> MENDER_NOT_FOUND, deployment |-> NoDeployment, held |-> {}]
    ELSE [ret |-> MENDER_FAIL, deployment |-> NoDeployment, held |-> {}]

\* lines 364-441: the treatment depending on the status
TreatStatus(status, response, malloc_zero_null) ==
    IF status = 200 THEN TreatDescriptor(response, malloc_zero_null)
    ELSE IF status = 204 THEN [ret |-> MENDER_NOT_FOUND, deployment |-> NoDeployment, held |-> {}]
    ELSE [ret |-> MENDER_FAIL, deployment |-> NoDeployment, held |-> {}]

\* a fallback on a server error as well: the fallback that
\* C2_V2FirstUnlessNoRequest rules out
FallsBack_on_server_error(status) == status \in {404, 500}

\* lines 354-362: whether the answer of the v2 request makes the call fall back
FallsBack(status) == status = 404

\* a fallback that leaves the body of the v2 answer in the buffer: the
\* buffer that C33_FallbackUsesV1BodyOnly rules out
ResponseForFallback_kept(response) == response

\* lines 357-358: free(response); response = NULL; before the v1 request
ResponseForFallback(response) == NULL

mender_api_check_for_deployment_result(config, jwt, name, provides, reply2, reply1, malloc_zero_null) ==
    LET v2 == api_check_for_deployment_v2(config, jwt, name, provides, reply2)
    IN  IF v2.ret = MENDER_FAIL
        THEN Obs("check_for_deployment", MENDER_FAIL, v2.requests, v2.http, v2.response, NoDeployment)
        ELSE
        LET v1 == api_check_for_deployment_v1(config, jwt, name,
                                              ResponseForFallback(v2.response), reply1)
            x == IF FallsBack(v2.status)
                 THEN Exchange(v1.ret, v1.status, v1.response,
                               v2.requests \o v1.requests, v2.http \o v1.http)
                 ELSE v2
        IN  IF x.ret = MENDER_FAIL
            THEN Obs("check_for_deployment", MENDER_FAIL, x.requests, x.http, x.response, NoDeployment)
            ELSE LET t == TreatStatus(x.status, x.response, malloc_zero_null)
                 IN  [Obs("check_for_deployment", t.ret, x.requests, x.http, x.response,
                          t.deployment) EXCEPT !.held = t.held]

\* assert(NULL != artifact_name) stops the process
Aborted(op) == Obs(op, "ABORT", <<>>, <<>>, NULL, NoDeployment)

mender_api_check_for_deployment ==
    /\ Idle
    /\ api_state = "init"
    /\ UNCHANGED <<mender_api_config, mender_api_jwt, artifact_name, mender_artifact_ctx>>
    /\ IF artifact_name = NULL
       THEN /\ api_state' = "abort"
            /\ last' = Seen(Aborted("check_for_deployment"), <<>>)
       ELSE /\ api_state' = api_state
            /\ \E provides \in ProvidesOutcomes, reply2 \in DeploymentReplies :
               \E reply1 \in IF reply2.status = 404 THEN DeploymentReplies ELSE {NoConnection} :
               \E malloc_zero_null \in
                    IF HasEmptyArray(reply2) \/ HasEmptyArray(reply1) THEN BOOLEAN ELSE {FALSE} :
                last' = Seen(mender_api_check_for_deployment_result(
                                mender_api_config, mender_api_jwt, artifact_name,
                                provides, reply2, reply1, malloc_zero_null),
                             <<provides>>)
    /\ UNCHANGED <<client, util>>

-----------------------------------------------------------------------------
(* mender_api_publish_deployment_status *)

MENDER_API_PATH_PUT_DEPLOYMENT_STATUS == "/api/devices/v1/deployments/device/deployments/%s/status"

\* the values of mender_deployment_status_t, and one value that is none of them
DeploymentStatuses ==
    {"MENDER_DEPLOYMENT_STATUS_DOWNLOADING", "MENDER_DEPLOYMENT_STATUS_INSTALLING",
     "MENDER_DEPLOYMENT_STATUS_REBOOTING", "MENDER_DEPLOYMENT_STATUS_SUCCESS",
     "MENDER_DEPLOYMENT_STATUS_FAILURE", "MENDER_DEPLOYMENT_STATUS_ALREADY_INSTALLED"}
StatusValues == DeploymentStatuses \cup {"99"}

\* a conversion that takes every unknown value for a failure: the default that
\* C24_StatusStringsAndNoRequestForOthers rules out
mender_utils_deployment_status_to_string_with_default(deployment_status) ==
    IF deployment_status = "MENDER_DEPLOYMENT_STATUS_DOWNLOADING" THEN Some("downloading")
    ELSE IF deployment_status = "MENDER_DEPLOYMENT_STATUS_INSTALLING" THEN Some("installing")
    ELSE IF deployment_status = "MENDER_DEPLOYMENT_STATUS_REBOOTING" THEN Some("rebooting")
    ELSE IF deployment_status = "MENDER_DEPLOYMENT_STATUS_SUCCESS" THEN Some("success")
    ELSE IF deployment_status = "MENDER_DEPLOYMENT_STATUS_ALREADY_INSTALLED"
         THEN Some("already-installed")
    ELSE Some("failure")

mender_utils_deployment_status_to_string(deployment_status) ==
    IF deployment_status = "MENDER_DEPLOYMENT_STATUS_DOWNLOADING" THEN Some("downloading")
    ELSE IF deployment_status = "MENDER_DEPLOYMENT_STATUS_INSTALLING" THEN Some("installing")
    ELSE IF deployment_status = "MENDER_DEPLOYMENT_STATUS_REBOOTING" THEN Some("rebooting")
    ELSE IF deployment_status = "MENDER_DEPLOYMENT_STATUS_SUCCESS" THEN Some("success")
    ELSE IF deployment_status = "MENDER_DEPLOYMENT_STATUS_FAILURE" THEN Some("failure")
    ELSE IF deployment_status = "MENDER_DEPLOYMENT_STATUS_ALREADY_INSTALLED"
         THEN Some("already-installed")
    ELSE NULL

\* the bodies the status and inventory endpoints answer with
PlainReplies == Replies({<<>>, <<<<"E">>>>, <<<<"E">>, <<"E">>>>})

DeploymentIds == {"d1", "d2"}

\* snprintf(path, ..., MENDER_API_PATH_PUT_DEPLOYMENT_STATUS, id)
StatusPath(id) == <<MENDER_API_PATH_PUT_DEPLOYMENT_STATUS, id>>

\* a status publish that takes 200 for success as well: the publish that
\* C9_OkIffPut204 rules out
mender_api_publish_deployment_status_result_ok_on_200(jwt, id, deployment_status, reply) ==
    LET value == mender_utils_deployment_status_to_string(deployment_status)
    IN  IF value = NULL
        THEN Obs("publish_deployment_status", MENDER_FAIL, <<>>, <<>>, NULL, NoDeployment)
        ELSE
        LET payload == [status |-> Val(value)]
            request == Request("publish_deployment_status", jwt, "PUT", StatusPath(id),
                               Some(payload), NULL)
            h == mender_http_perform(reply, NULL)
            out(ret) == Obs("publish_deployment_status", ret, <<request>>, <<Http(h, reply)>>,
                            h.response, NoDeployment)
        IN  IF h.ret # MENDER_OK THEN out(h.ret)
            ELSE IF h.status \in {200, 204} THEN out(MENDER_OK)
            ELSE out(MENDER_FAIL)

\* a publish that issues its request a second time: the repetition that
\* C11_ProgressThenOneTerminal rules out
mender_api_publish_deployment_status_result_twice(jwt, id, deployment_status, reply) ==
    LET value == mender_utils_deployment_status_to_string(deployment_status)
        payload == [status |-> Val(value)]
        request == Request("publish_deployment_status", jwt, "PUT", StatusPath(id),
                           Some(payload), NULL)
        h == mender_http_perform(reply, NULL)
    IN  Obs("publish_deployment_status",
            IF h.ret = MENDER_OK /\ h.status = 204 THEN MENDER_OK ELSE MENDER_FAIL,
            <<request, request>>, <<Http(h, reply), Http(h, reply)>>, h.response, NoDeployment)

mender_api_publish_deployment_status_result(jwt, id, deployment_status, reply) ==
    LET value == mender_utils_deployment_status_to_string(deployment_status)
    IN  IF value = NULL
        THEN Obs("publish_deployment_status", MENDER_FAIL, <<>>, <<>>, NULL, NoDeployment)
        ELSE
        LET payload == [status |-> Val(value)]
            request == Request("publish_deployment_status", jwt, "PUT", StatusPath(id),
                               Some(payload), NULL)
            h == mender_http_perform(reply, NULL)
            out(ret) == Obs("publish_deployment_status", ret, <<request>>, <<Http(h, reply)>>,
                            h.response, NoDeployment)
        IN  IF h.ret # MENDER_OK THEN out(h.ret)
            ELSE IF h.status = 204 THEN out(MENDER_OK)
            ELSE out(MENDER_FAIL)

mender_api_publish_deployment_status ==
    /\ Idle
    /\ api_state = "init"
    /\ \E id \in DeploymentIds, deployment_status \in StatusValues, reply \in PlainReplies :
        last' = Seen(mender_api_publish_deployment_status_result(
                        mender_api_jwt, id, deployment_status, reply),
                     <<id, deployment_status>>)
    /\ UNCHANGED <<api_state, mender_api_config, mender_api_jwt, artifact_name,
                   mender_artifact_ctx>>
    /\ UNCHANGED <<client, util>>

-----------------------------------------------------------------------------
(* mender_api_publish_inventory_data *)

MENDER_API_PATH_PUT_DEVICE_ATTRIBUTES == "/api/devices/v1/inventory/device/attributes"

Item(name, value) == [name |-> name, value |-> value]

\* a keystore is an array of items that ends with an item without name and value
Inventories ==
    {NULL,
     Some(<<Item(NULL, NULL)>>),
     Some(<<Item(Some("n1"), Some("v1")), Item(NULL, NULL)>>),
     Some(<<Item(Some("n2"), Some("v2")), Item(Some("n1"), Some("v1")), Item(NULL, NULL)>>),
     Some(<<Item(Some("n1"), Some("v1")), Item(Some("n1"), Some("v2")), Item(NULL, NULL)>>),
     Some(<<Item(Some("n1"), Some("v1")), Item(Some("n2"), NULL), Item(Some("n2"), Some("v2")),
            Item(NULL, NULL)>>)}

RECURSIVE KeystoreLengthFrom(_, _)
KeystoreLengthFrom(items, length) ==
    IF items[length + 1].name # NULL /\ items[length + 1].value # NULL
    THEN KeystoreLengthFrom(items, length + 1)
    ELSE length

mender_utils_keystore_length(keystore) ==
    IF keystore # NULL THEN KeystoreLengthFrom(Val(keystore), 0) ELSE 0

\* a payload without the rootfs-image.version element: the body that
\* C18_InventoryBodyAndOutcome rules out
InventoryPayload_without_version(config, name, inventory) ==
    <<[name |-> "artifact_name", value |-> Val(name)],
      [name |-> "device_type", value |-> config.device_type]>>
    \o (IF inventory # NULL
        THEN [index \in 1..KeystoreLengthFrom(Val(inventory), 0) |->
                [name |-> Val(Val(inventory)[index].name),
                 value |-> Val(Val(inventory)[index].value)]]
        ELSE <<>>)

\* the array of {name, value} objects of the inventory request
InventoryPayload(config, name, inventory) ==
    <<[name |-> "artifact_name", value |-> Val(name)],
      [name |-> "rootfs-image.version", value |-> Val(name)],
      [name |-> "device_type", value |-> config.device_type]>>
    \o (IF inventory # NULL
        THEN [index \in 1..KeystoreLengthFrom(Val(inventory), 0) |->
                [name |-> Val(Val(inventory)[index].name),
                 value |-> Val(Val(inventory)[index].value)]]
        ELSE <<>>)

mender_api_publish_inventory_data_result(config, jwt, name, inventory, reply) ==
    LET payload == InventoryPayload(config, name, inventory)
        request == Request("publish_inventory_data", jwt, "PUT",
                           MENDER_API_PATH_PUT_DEVICE_ATTRIBUTES, Some(payload), NULL)
        h == mender_http_perform(reply, NULL)
        out(ret) == Obs("publish_inventory_data", ret, <<request>>, <<Http(h, reply)>>,
                        h.response, NoDeployment)
    IN  IF h.ret # MENDER_OK THEN out(h.ret)
        ELSE IF h.status = 200 THEN out(MENDER_OK)
        ELSE out(MENDER_FAIL)

mender_api_publish_inventory_data ==
    /\ Idle
    /\ api_state = "init"
    /\ UNCHANGED <<mender_api_config, mender_api_jwt, artifact_name, mender_artifact_ctx>>
    /\ IF artifact_name = NULL
       THEN /\ api_state' = "abort"
            /\ last' = Seen(Aborted("publish_inventory_data"), <<>>)
       ELSE /\ api_state' = api_state
            /\ \E inventory \in Inventories, reply \in PlainReplies :
                last' = Seen(mender_api_publish_inventory_data_result(
                                mender_api_config, mender_api_jwt, artifact_name, inventory, reply),
                             <<inventory>>)
    /\ UNCHANGED <<client, util>>

-----------------------------------------------------------------------------
(* The artifact parser and the download callbacks *)

\* An event of a download carries, besides its data, what the parser does when
\* the callback reaches it: for CONNECTED whether mender_artifact_create_ctx
\* returns a context, for DATA_RECEIVED the result of
\* mender_artifact_process_data and the update module it records, if any.
ArtifactEvent(type, data, created, ret, module) ==
    [type |-> type, data |-> data, created |-> created, ret |-> ret, module |-> module]

ArtifactConnected(created) == ArtifactEvent("CONNECTED", NULL, created, MENDER_OK, NULL)
ArtifactData(d, ret, module) == ArtifactEvent("DATA_RECEIVED", d, FALSE, ret, module)
ArtifactOther(type) == ArtifactEvent(type, NULL, FALSE, MENDER_OK, NULL)

\* the size mender_download_artifact_callback asks for, and the context
\* mender_api_http_artifact_callback creates without naming a size
DownloadBufferSize == <<2, "MENDER_ARTIFACT_STREAM_BLOCK_SIZE", "mender_http_recv_buf_length">>
DefaultBufferSize == <<>>

\* the state a download callback works on: the parser's context, the chunks
\* the parser was handed (with the context that took each), and the update
\* module recorded in the download data
DownloadState(ctx, parsed, module) == [ctx |-> ctx, parsed |-> parsed, module |-> module]

\* mender_artifact_create_ctx
mender_artifact_create_ctx(buf_size) == Some([size |-> buf_size, made |-> "now"])

\* a callback that goes on when the parser rejects a chunk: the callback that
\* C10_DownloadOkOn200AndParsed rules out
ArtifactCallback_ignores_parser(event, st, buf_size, records_module) ==
    CASE event.type = "CONNECTED" ->
            IF ~event.created
            THEN [ret |-> MENDER_FAIL, st |-> st]
            ELSE [ret |-> MENDER_OK, st |-> [st EXCEPT !.ctx = mender_artifact_create_ctx(buf_size)]]
      [] event.type = "DATA_RECEIVED" ->
            IF event.data = NULL \/ Len(Val(event.data)) = 0 \/ st.ctx = NULL
            THEN [ret |-> MENDER_FAIL, st |-> st]
            ELSE [ret |-> MENDER_OK,
                  st |-> [st EXCEPT
                            !.parsed = Append(@, [data |-> Val(event.data), ctx |-> Val(st.ctx)])]]
      [] event.type = "DISCONNECTED" ->
            [ret |-> MENDER_OK, st |-> st]
      [] OTHER ->
            [ret |-> MENDER_FAIL, st |-> st]

\* a callback that keeps the context it finds when the connection opens: the
\* callback that C20_ChunksParsedOnceInOrder rules out
ArtifactCallback_keeps_context(event, st, buf_size, records_module) ==
    CASE event.type = "CONNECTED" ->
            IF ~event.created
            THEN [ret |-> MENDER_FAIL, st |-> st]
            ELSE [ret |-> MENDER_OK,
                  st |-> [st EXCEPT !.ctx = IF @ # NULL THEN @
                                            ELSE mender_artifact_create_ctx(buf_size)]]
      [] event.type = "DATA_RECEIVED" ->
            IF event.data = NULL \/ Len(Val(event.data)) = 0 \/ st.ctx = NULL
            THEN [ret |-> MENDER_FAIL, st |-> st]
            ELSE [ret |-> event.ret,
                  st |-> [st EXCEPT
                            !.parsed = Append(@, [data |-> Val(event.data), ctx |-> Val(st.ctx)]),
                            !.module = IF records_module /\ event.module # NULL
                                       THEN event.module ELSE @]]
      [] event.type = "DISCONNECTED" ->
            [ret |-> MENDER_OK, st |-> st]
      [] OTHER ->
            [ret |-> MENDER_FAIL, st |-> st]

\* a callback that hands a chunk to the parser without asking for the
\* context: the callback that C34_ResultOfEachDownloadEvent rules out
ArtifactCallback_without_context_check(event, st, buf_size, records_module) ==
    CASE event.type = "CONNECTED" ->
            IF ~event.created
            THEN [ret |-> MENDER_FAIL, st |-> st]
            ELSE [ret |-> MENDER_OK, st |-> [st EXCEPT !.ctx = mender_artifact_create_ctx(buf_size)]]
      [] event.type = "DATA_RECEIVED" ->
            IF event.data = NULL \/ Len(Val(event.data)) = 0
            THEN [ret |-> MENDER_FAIL, st |-> st]
            ELSE [ret |-> event.ret,
                  st |-> [st EXCEPT
                            !.parsed = Append(@, [data |-> Val(event.data),
                                                  ctx |-> IF st.ctx # NULL THEN Val(st.ctx)
                                                          ELSE [size |-> buf_size, made |-> "never"]]),
                            !.module = IF records_module /\ event.module # NULL
                                       THEN event.module ELSE @]]
      [] event.type = "DISCONNECTED" ->
            [ret |-> MENDER_OK, st |-> st]
      [] OTHER ->
            [ret |-> MENDER_FAIL, st |-> st]

\* the body shared by mender_download_artifact_callback and
\* mender_api_http_artifact_callback, which differ in the size they ask for
ArtifactCallback(event, st, buf_size, records_module) ==
    CASE event.type = "CONNECTED" ->
            IF ~event.created
            THEN [ret |-> MENDER_FAIL, st |-> st]
            ELSE [ret |-> MENDER_OK, st |-> [st EXCEPT !.ctx = mender_artifact_create_ctx(buf_size)]]
      [] event.type = "DATA_RECEIVED" ->
            IF event.data = NULL \/ Len(Val(event.data)) = 0
            THEN [ret |-> MENDER_FAIL, st |-> st]
            ELSE IF st.ctx = NULL
            THEN [ret |-> MENDER_FAIL, st |-> st]
            ELSE [ret |-> event.ret,
                  st |-> [st EXCEPT
                            !.parsed = Append(@, [data |-> Val(event.data), ctx |-> Val(st.ctx)]),
                            !.module = IF records_module /\ event.module # NULL
                                       THEN event.module ELSE @]]
      [] event.type = "DISCONNECTED" ->
            [ret |-> MENDER_OK, st |-> st]
      [] event.type = "ERROR" ->
            [ret |-> MENDER_FAIL, st |-> st]
      [] OTHER ->
            [ret |-> MENDER_FAIL, st |-> st]

mender_download_artifact_callback(event, st) ==
    ArtifactCallback(event, st, DownloadBufferSize, TRUE)

mender_api_http_artifact_callback(event, st) ==
    ArtifactCallback(event, st, DefaultBufferSize, FALSE)

\* The HTTP client delivers the events of a download to the callback, in order,
\* and stops at the first event the callback rejects.
RECURSIVE DeliverArtifact(_, _, _)
DeliverArtifact(events, st, api) ==
    IF events = <<>>
    THEN [ret |-> MENDER_OK, st |-> st]
    ELSE LET r == IF api THEN mender_api_http_artifact_callback(Head(events), st)
                  ELSE mender_download_artifact_callback(Head(events), st)
         IN  IF r.ret # MENDER_OK THEN r ELSE DeliverArtifact(Tail(events), r.st, api)

\* mender_http_artifact_download, and mender_http_perform with the artifact callback
mender_http_artifact_download(reply, st, api) ==
    IF ~reply.connect
    THEN [ret |-> MENDER_FAIL, status |-> 0, st |-> st]
    ELSE LET d == DeliverArtifact(reply.events, st, api)
         IN  IF d.ret # MENDER_OK
             THEN [ret |-> MENDER_FAIL, status |-> 0, st |-> d.st]
             ELSE [ret |-> MENDER_OK, status |-> reply.status, st |-> d.st]

\* what the parser answers to a chunk
ParserAnswers ==
    {[ret |-> MENDER_OK, module |-> NULL],
     [ret |-> MENDER_OK, module |-> Some("module-1")],
     [ret |-> MENDER_FAIL, module |-> NULL]}

ArtifactChars == {"x", "y"}

\* the data events of a chunk sequence with the parser's answer to each chunk
ArtifactDataSeqs ==
    UNION {{[i \in 1..Len(c) |-> ArtifactData(Some(c[i]), a[i].ret, a[i].module)] :
                a \in [1..Len(c) -> ParserAnswers]} :
           c \in ChunkSeqs(ArtifactChars, MaxArtifactLen)}

OneChunk == ArtifactData(Some(<<"x">>), MENDER_OK, NULL)

\* The HTTP client reports CONNECTED before any other event of a connection.
DownloadReplies ==
    {NoConnection}
    \cup [connect : {TRUE},
          events : {<<ArtifactConnected(TRUE)>> \o d \o <<ArtifactOther("DISCONNECTED")>> :
                        d \in ArtifactDataSeqs},
          status : Statuses]
    \cup [connect : {TRUE},
          events : {<<ArtifactConnected(FALSE), OneChunk, ArtifactOther("DISCONNECTED")>>}
                   \cup {<<ArtifactConnected(TRUE)>> \o d \o <<bad, ArtifactOther("DISCONNECTED")>> :
                            d \in {<<>>, <<OneChunk>>},
                            bad \in {ArtifactData(NULL, MENDER_OK, NULL),
                                     ArtifactData(Some(<<>>), MENDER_OK, NULL),
                                     ArtifactOther("ERROR"), ArtifactOther("UNKNOWN")}},
          status : {200}]

ArtifactUri == "https://a/x"

\* a download's observation: the call's observation with the chunks parsed and
\* the caller's update module
DownloadObs(op, ret, request, h, reply, module) ==
    [Obs(op, ret, <<request>>, <<Http(h, reply)>>, NULL, NoDeployment) EXCEPT
        !.parsed = h.st.parsed, !.update_module = module]

-----------------------------------------------------------------------------
(* mender_api_download_artifact and mender_download_artifact *)

mender_api_download_artifact_result(uri, ctx, reply) ==
    LET request == Request("api_download_artifact", NULL, "GET", uri, NULL, NULL)
        h == mender_http_artifact_download(reply, DownloadState(ctx, <<>>, NULL), TRUE)
        out(ret) == [ctx |-> h.st.ctx,
                     obs |-> DownloadObs("api_download_artifact", ret, request, h, reply, NULL)]
    IN  IF h.ret # MENDER_OK THEN out(h.ret)
        ELSE IF h.status = 200 THEN out(MENDER_OK)
        ELSE out(MENDER_FAIL)

mender_api_download_artifact ==
    /\ Idle
    /\ api_state = "init"
    /\ \E reply \in DownloadReplies :
        LET r == mender_api_download_artifact_result(ArtifactUri, mender_artifact_ctx, reply)
        IN  /\ mender_artifact_ctx' = r.ctx
            /\ last' = Seen(r.obs, <<ArtifactUri>>)
    /\ UNCHANGED <<api_state, mender_api_config, mender_api_jwt, artifact_name>>
    /\ UNCHANGED <<client, util>>

\* a download that sends the session token: the download that
\* C7_DownloadWithoutTokenAndSignature rules out
mender_download_artifact_result_with_token(uri, update_module, ctx, reply) ==
    LET request == Request("download_artifact", mender_api_jwt, "GET", uri, NULL, NULL)
        h == mender_http_artifact_download(reply, DownloadState(ctx, <<>>, NULL), FALSE)
        out(ret, module) == [ctx |-> h.st.ctx,
                             obs |-> DownloadObs("download_artifact", ret, request, h, reply, module)]
    IN  IF h.ret # MENDER_OK THEN out(h.ret, update_module)
        ELSE IF h.status = 200 THEN out(MENDER_OK, h.st.module)
        ELSE out(MENDER_FAIL, update_module)

\* a download that hands back the module recorded so far on every return:
\* the write that C35_UpdateModuleWrittenOnlyOnOk rules out
mender_download_artifact_result_writes_always(uri, update_module, ctx, reply) ==
    LET request == Request("download_artifact", NULL, "GET", uri, NULL, NULL)
        h == mender_http_artifact_download(reply, DownloadState(ctx, <<>>, NULL), FALSE)
        out(ret, module) == [ctx |-> h.st.ctx,
                             obs |-> DownloadObs("download_artifact", ret, request, h, reply, module)]
    IN  IF h.ret # MENDER_OK THEN out(h.ret, h.st.module)
        ELSE IF h.status = 200 THEN out(MENDER_OK, h.st.module)
        ELSE out(MENDER_FAIL, h.st.module)

\* update_module is the value the caller's variable holds before the call
mender_download_artifact_result(uri, update_module, ctx, reply) ==
    LET request == Request("download_artifact", NULL, "GET", uri, NULL, NULL)
        h == mender_http_artifact_download(reply, DownloadState(ctx, <<>>, NULL), FALSE)
        out(ret, module) == [ctx |-> h.st.ctx,
                             obs |-> DownloadObs("download_artifact", ret, request, h, reply, module)]
    IN  IF h.ret # MENDER_OK THEN out(h.ret, update_module)
        ELSE IF h.status = 200 THEN out(MENDER_OK, h.st.module)
        ELSE out(MENDER_FAIL, update_module)

CallerModules == {NULL, Some("module-0")}

mender_download_artifact ==
    /\ Idle
    /\ api_state = "init"
    /\ \E update_module \in CallerModules, reply \in DownloadReplies :
        LET r == mender_download_artifact_result(ArtifactUri, update_module,
                                                 mender_artifact_ctx, reply)
        IN  /\ mender_artifact_ctx' = r.ctx
            /\ last' = Seen(r.obs, <<ArtifactUri, update_module>>)
    /\ UNCHANGED <<api_state, mender_api_config, mender_api_jwt, artifact_name>>
    /\ UNCHANGED <<client, util>>

\* mender_artifact_release_ctx: the client releases the parser's context once
\* it is done with a download
mender_artifact_release_ctx ==
    /\ Idle
    /\ mender_artifact_ctx # NULL
    /\ mender_artifact_ctx' = NULL
    /\ UNCHANGED <<api_state, mender_api_config, mender_api_jwt, artifact_name, last>>
    /\ UNCHANGED <<client, util>>

-----------------------------------------------------------------------------
\* the state machine and the utility functions are not part of these behaviours
NoClient == [state |-> "none"]
NoUtil == [op |-> "none"]

Init ==
    /\ api_state = "uninit"
    /\ mender_api_config = [device_type |-> "dev-A", tenant_token |-> NULL]
    /\ mender_api_jwt = NULL
    /\ artifact_name = NULL
    /\ mender_artifact_ctx = NULL
    /\ last = NoCall
    /\ client = NoClient
    /\ util = NoUtil

Next ==
    \/ mender_api_init
    \/ mender_api_perform_authentication
    \/ mender_api_check_for_deployment
    \/ mender_api_publish_deployment_status
    \/ mender_api_publish_inventory_data
    \/ mender_api_download_artifact
    \/ mender_download_artifact
    \/ mender_artifact_release_ctx
    \/ mender_api_exit
    \/ Return

Spec == Init /\ [][Next]_vars

-----------------------------------------------------------------------------
(* The deployment state machine that drives the API (spec section 4.5).     *)
(* client.state is the state of the machine ("OFF": the process is not      *)
(* running), client.deployment the persisted deployment state,              *)
(* client.stored_artifact_name the artifact_name blob of the persistent     *)
(* storage, client.committed the name of the last artifact committed,       *)
(* client.offered the deployment ids the server has offered so far (the     *)
(* server offers a deployment to a device once), and client.sent[id] the    *)
(* statuses of the status requests issued for deployment id, in order.      *)

ClientStates ==
    {"OFF", "UNAUTHENTICATED", "AUTHENTICATED", "DOWNLOADING", "INSTALLING",
     "REBOOT_REQUESTED", "POST_REBOOT_VERIFYING"}

ArtifactNames == {"fw-1", "fw-2"}

TerminalStatuses ==
    {"MENDER_DEPLOYMENT_STATUS_SUCCESS", "MENDER_DEPLOYMENT_STATUS_FAILURE",
     "MENDER_DEPLOYMENT_STATUS_ALREADY_INSTALLED"}

\* what the servers answer to the state machine's requests
ClientAuthReplies ==
    {NoConnection}
    \cup [connect : {TRUE}, events : CompleteEvents({<<<<"a">>>>}), status : {200, 401}]

ClientPollReplies ==
    {NoConnection}
    \cup [connect : {TRUE}, events : CompleteEvents({<<FullDescriptor>>}), status : {200}]
    \cup [connect : {TRUE}, events : CompleteEvents({<<>>}), status : {204, 404}]

ClientPublishReplies ==
    {NoConnection}
    \cup [connect : {TRUE}, events : CompleteEvents({<<>>}), status : {204, 500}]

ClientDownloadReplies ==
    {NoConnection}
    \cup [connect : {TRUE},
          events : {<<ArtifactConnected(TRUE), ArtifactData(Some(<<"x">>), ret, NULL),
                      ArtifactOther("DISCONNECTED")>> : ret \in {MENDER_OK, MENDER_FAIL}},
          status : {200}]

\* the state the machine idles in: it polls when it holds a token
IdleState(jwt) == IF jwt # NULL THEN "AUTHENTICATED" ELSE "UNAUTHENTICATED"

\* the machine with the requests of a status report added to what was sent for
\* the deployment; obs is the observation of the call of
\* mender_api_publish_deployment_status that made the report
Reported(c, id, deployment_status, obs) ==
    [c EXCEPT !.sent[id] = @ \o [i \in 1..Len(obs.requests) |-> deployment_status]]

\* any failure result: the failure is reported (obs_failure) and the deployment
\* state cleared
Abandon(c, jwt, id, obs_failure) ==
    [obs |-> obs_failure,
     client |-> [Reported(c, id, "MENDER_DEPLOYMENT_STATUS_FAILURE", obs_failure) EXCEPT
                    !.state = IdleState(jwt), !.deployment = NULL]]

\* a transition that reports a status (obs) and moves to the next state; when
\* the report fails the machine reports the failure and clears the deployment
Advance(c, jwt, id, deployment_status, next, obs, obs_failure) ==
    IF obs.ret = MENDER_OK
    THEN [obs |-> obs,
          client |-> [Reported(c, id, deployment_status, obs) EXCEPT !.state = next]]
    ELSE Abandon(Reported(c, id, deployment_status, obs), jwt, id, obs_failure)

\* the process starts: mender_api_init loads the artifact name from storage; a
\* persisted deployment is verified, otherwise the machine authenticates
client_boot ==
    /\ client.state = "OFF"
    /\ \E r \in {mender_api_init_result(
                    NULL, [ret |-> MENDER_OK, name |-> client.stored_artifact_name], MENDER_OK)} :
           /\ artifact_name' = r.artifact_name
           /\ last' = Seen(Obs("init", r.ret, <<>>, <<>>, NULL, NoDeployment), <<>>)
    /\ mender_api_config' = [device_type |-> "dev-A", tenant_token |-> NULL]
    /\ mender_api_jwt' = NULL
    /\ api_state' = "init"
    /\ mender_artifact_ctx' = NULL
    /\ client' = [client EXCEPT !.state = IF client.deployment # NULL
                                           THEN "POST_REBOOT_VERIFYING"
                                           ELSE "UNAUTHENTICATED"]
    /\ UNCHANGED util

\* UNAUTHENTICATED -> AUTHENTICATED on a successful mender_api_perform_authentication
client_authenticate ==
    /\ client.state = "UNAUTHENTICATED"
    /\ \E reply \in ClientAuthReplies :
       \E r \in {mender_api_perform_authentication_result(
                    mender_api_config, mender_api_jwt, "none", reply)} :
            /\ mender_api_jwt' = r.jwt
            /\ last' = Seen(Obs("perform_authentication", r.ret, r.requests, r.http,
                                r.response, NoDeployment), <<>>)
            /\ client' = [client EXCEPT !.state = IdleState(r.jwt)]
    /\ UNCHANGED <<api_state, mender_api_config, artifact_name, mender_artifact_ctx, util>>

\* AUTHENTICATED -> POLLING and on: no update or a failure leaves the machine
\* idle; a descriptor naming the installed artifact is reported as already
\* installed; any other descriptor is persisted and reported as downloading.
\* id and name are what the descriptor of the answer says.
client_poll ==
    /\ client.state = "AUTHENTICATED"
    /\ \E reply2 \in ClientPollReplies, id \in DeploymentIds \ client.offered,
          name \in ArtifactNames, reply \in ClientPublishReplies,
          reply_failure \in ClientPublishReplies :
       \E reply1 \in IF reply2.status = 404 THEN ClientPollReplies ELSE {NoConnection} :
       \E poll \in {mender_api_check_for_deployment_result(
                        mender_api_config, mender_api_jwt, artifact_name,
                        [ret |-> MENDER_OK, list |-> <<>>], reply2, reply1, FALSE)},
          already \in {mender_api_publish_deployment_status_result(
                        mender_api_jwt, id, "MENDER_DEPLOYMENT_STATUS_ALREADY_INSTALLED", reply)},
          downloading \in {mender_api_publish_deployment_status_result(
                        mender_api_jwt, id, "MENDER_DEPLOYMENT_STATUS_DOWNLOADING", reply)},
          failure \in {mender_api_publish_deployment_status_result(
                        mender_api_jwt, id, "MENDER_DEPLOYMENT_STATUS_FAILURE", reply_failure)},
          c \in {[client EXCEPT !.offered = @ \cup {id}]} :
            /\ last' = Seen(poll, <<>>)
            /\ client' =
                IF poll.ret # MENDER_OK THEN client
                ELSE IF Some(name) = client.stored_artifact_name
                THEN Reported(c, id, "MENDER_DEPLOYMENT_STATUS_ALREADY_INSTALLED", already)
                ELSE Advance([c EXCEPT !.deployment = Some([id |-> id, artifact_name |-> name])],
                             mender_api_jwt, id, "MENDER_DEPLOYMENT_STATUS_DOWNLOADING",
                             "DOWNLOADING", downloading, failure).client
    /\ UNCHANGED <<api_state, mender_api_config, mender_api_jwt, artifact_name,
                   mender_artifact_ctx, util>>

\* DOWNLOADING -> INSTALLING when the download succeeds
client_download ==
    /\ client.state = "DOWNLOADING"
    /\ \E download \in ClientDownloadReplies, reply \in ClientPublishReplies,
          reply_failure \in ClientPublishReplies, id \in {Val(client.deployment).id} :
       \E d \in {mender_download_artifact_result(ArtifactUri, NULL, mender_artifact_ctx, download)},
          installing \in {mender_api_publish_deployment_status_result(
                        mender_api_jwt, id, "MENDER_DEPLOYMENT_STATUS_INSTALLING", reply)},
          failure \in {mender_api_publish_deployment_status_result(
                        mender_api_jwt, id, "MENDER_DEPLOYMENT_STATUS_FAILURE", reply_failure)} :
       \E r \in {IF d.obs.ret = MENDER_OK
                 THEN Advance(client, mender_api_jwt, id, "MENDER_DEPLOYMENT_STATUS_INSTALLING",
                              "INSTALLING", installing, failure)
                 ELSE Abandon(client, mender_api_jwt, id, failure)} :
            /\ client' = r.client
            /\ last' = Seen(r.obs, <<>>)
    \* the machine releases the parser's context when the download is over
    /\ mender_artifact_ctx' = NULL
    /\ UNCHANGED <<api_state, mender_api_config, mender_api_jwt, artifact_name, util>>

\* INSTALLING -> REBOOT_REQUESTED when a module needs a reboot, otherwise the
\* installation is verified at once
client_install ==
    /\ client.state = "INSTALLING"
    /\ \E installed \in BOOLEAN, needs_reboot \in BOOLEAN, reply \in ClientPublishReplies,
          reply_failure \in ClientPublishReplies, id \in {Val(client.deployment).id} :
       \E rebooting \in {mender_api_publish_deployment_status_result(
                        mender_api_jwt, id, "MENDER_DEPLOYMENT_STATUS_REBOOTING", reply)},
          failure \in {mender_api_publish_deployment_status_result(
                        mender_api_jwt, id, "MENDER_DEPLOYMENT_STATUS_FAILURE", reply_failure)} :
       \E r \in {IF ~installed THEN Abandon(client, mender_api_jwt, id, failure)
                 ELSE IF needs_reboot
                 THEN Advance(client, mender_api_jwt, id, "MENDER_DEPLOYMENT_STATUS_REBOOTING",
                              "REBOOT_REQUESTED", rebooting, failure)
                 ELSE [obs |-> NoCall,
                       client |-> [client EXCEPT !.state = "POST_REBOOT_VERIFYING"]]} :
            /\ client' = r.client
            /\ last' = Seen(r.obs, <<>>)
    /\ UNCHANGED <<api_state, mender_api_config, mender_api_jwt, artifact_name,
                   mender_artifact_ctx, util>>

\* the platform restarts the device: the process ends, the storage stays
client_restart ==
    /\ client.state = "REBOOT_REQUESTED"
    /\ client' = [client EXCEPT !.state = "OFF"]
    /\ api_state' = "uninit"
    /\ mender_api_jwt' = NULL
    /\ artifact_name' = NULL
    /\ mender_artifact_ctx' = NULL
    /\ last' = NoCall
    /\ UNCHANGED <<mender_api_config, util>>

\* POST_REBOOT_VERIFYING -> COMMITTED: report success, update the stored
\* artifact name, clear the deployment state; a failed commit is a failure
client_commit ==
    /\ client.state = "POST_REBOOT_VERIFYING"
    /\ \E committed \in BOOLEAN, reply \in ClientPublishReplies,
          id \in {Val(client.deployment).id},
          name \in {Val(client.deployment).artifact_name} :
       \E success \in {mender_api_publish_deployment_status_result(
                        mender_api_jwt, id, "MENDER_DEPLOYMENT_STATUS_SUCCESS", reply)},
          failure \in {mender_api_publish_deployment_status_result(
                        mender_api_jwt, id, "MENDER_DEPLOYMENT_STATUS_FAILURE", reply)} :
       \E r \in {IF committed
                 THEN [obs |-> success,
                       client |-> [Reported(client, id, "MENDER_DEPLOYMENT_STATUS_SUCCESS", success)
                                    EXCEPT !.state = IdleState(mender_api_jwt),
                                           !.deployment = NULL,
                                           !.stored_artifact_name = Some(name),
                                           !.committed = Some(name)]]
                 ELSE Abandon(client, mender_api_jwt, id, failure)} :
            /\ client' = r.client
            /\ last' = Seen(r.obs, <<>>)
    /\ UNCHANGED <<api_state, mender_api_config, mender_api_jwt, artifact_name,
                   mender_artifact_ctx, util>>

ClientInit ==
    /\ api_state = "uninit"
    /\ mender_api_config = [device_type |-> "dev-A", tenant_token |-> NULL]
    /\ mender_api_jwt = NULL
    /\ artifact_name = NULL
    /\ mender_artifact_ctx = NULL
    /\ last = NoCall
    /\ client = [state |-> "OFF", deployment |-> NULL,
                 stored_artifact_name |-> Some("fw-1"), committed |-> NULL,
                 offered |-> {}, sent |-> [id \in DeploymentIds |-> <<>>]]
    /\ util = NoUtil

ClientNext ==
    \/ client_boot
    \/ client_authenticate
    \/ client_poll
    \/ client_download
    \/ client_install
    \/ client_restart
    \/ client_commit

ClientSpec == ClientInit /\ [][ClientNext]_vars

-----------------------------------------------------------------------------
(* The key/value lists of mender-utils.c.  A list is the sequence of its    *)
(* nodes from the head; a node is [key, value].  util holds the list under  *)
(* construction, the (key, value) pairs added to it in the order of the     *)
(* calls (util.added), and the text, result and list of the last            *)
(* conversion.                                                               *)

MaxNodes == 3       \* nodes of a list
MaxTextLen == 4     \* characters of a text given to the parser

US == "US"          \* MENDER_KEY_VALUE_DELIMITER "\x1F"
RS == "RS"          \* MENDER_KEY_VALUE_SEPARATOR "\x1E"

\* index of the first c in s, 0 when there is none
strchr(s, c) ==
    IF \E i \in 1..Len(s) : s[i] = c
    THEN CHOOSE i \in 1..Len(s) : s[i] = c /\ \A j \in 1..(i - 1) : s[j] # c
    ELSE 0

mender_utils_create_key_value_node(type, value, list) ==
    [ret |-> MENDER_OK, list |-> <<[key |-> strdup(type), value |-> strdup(value)]>> \o list]

RECURSIVE mender_utils_key_value_list_to_string(_)
mender_utils_key_value_list_to_string(list) ==
    IF list = <<>> THEN <<>>
    ELSE list[1].key \o <<US>> \o list[1].value \o <<RS>>
         \o mender_utils_key_value_list_to_string(Tail(list))

\* strtok_r: the text after the leading separators; the next token is its
\* part before the next separator
AfterSeparators(str) ==
    IF \A i \in 1..Len(str) : str[i] = RS THEN <<>>
    ELSE SubSeq(str, CHOOSE i \in 1..Len(str) :
                        str[i] # RS /\ \A j \in 1..(i - 1) : str[j] = RS,
                Len(str))

RECURSIVE mender_utils_string_to_key_value_list(_, _)
mender_utils_string_to_key_value_list(key_value_str, list) ==
    LET str == AfterSeparators(key_value_str)
        end == IF strchr(str, RS) = 0 THEN Len(str) + 1 ELSE strchr(str, RS)
        token == SubSeq(str, 1, end - 1)
        delimiter_pos == strchr(token, US)
    IN  IF str = <<>> THEN [ret |-> MENDER_OK, list |-> list]
        ELSE IF delimiter_pos = 0 THEN [ret |-> MENDER_FAIL, list |-> list]
        ELSE mender_utils_string_to_key_value_list(
                SubSeq(str, end + 1, Len(str)),
                mender_utils_create_key_value_node(
                    SubSeq(token, 1, delimiter_pos - 1),
                    SubSeq(token, delimiter_pos + 1, Len(token)), list).list)

\* keys and values of the callers, and the texts given to the parser
KeyStrings == {<<"k">>, <<"j">>}
ValueStrings == {<<>>, <<"v">>, <<US>>}
KeyValueTexts == UNION {[1..n -> {"k", US, RS}] : n \in 0..MaxTextLen}

KeyValue(op, list, added, text, ret, out) ==
    [op |-> op, list |-> list, added |-> added, text |-> text, ret |-> ret, out |-> out]

create_key_value_node ==
    /\ Len(util.list) < MaxNodes
    /\ \E type \in KeyStrings, value \in ValueStrings :
        LET r == mender_utils_create_key_value_node(type, value, util.list)
        IN  util' = KeyValue("create_key_value_node", r.list,
                             Append(util.added, [key |-> type, value |-> value]),
                             NULL, r.ret, <<>>)
    /\ UNCHANGED <<api_vars, client>>

key_value_list_to_string ==
    /\ util' = KeyValue("key_value_list_to_string", util.list, util.added,
                        Some(mender_utils_key_value_list_to_string(util.list)),
                        MENDER_OK, <<>>)
    /\ UNCHANGED <<api_vars, client>>

\* the parser is given an empty list to fill and the serialisation of the
\* list, or any other text (while no list is under construction: the parser
\* does not look at it)
string_to_key_value_list ==
    /\ \E key_value_str \in (IF util.list = <<>> THEN KeyValueTexts ELSE {})
                            \cup {mender_utils_key_value_list_to_string(util.list)} :
        LET r == mender_utils_string_to_key_value_list(key_value_str, <<>>)
        IN  util' = KeyValue("string_to_key_value_list", util.list, util.added,
                             Some(key_value_str), r.ret, r.list)
    /\ UNCHANGED <<api_vars, client>>

\* the parser is given the list under construction to add to: util.list is
\* the list before the call and util.out the list after it
string_to_key_value_list_onto ==
    /\ util.op \in {"none", "create_key_value_node", "free_linked_list"}
    /\ Len(util.list) <= 1
    /\ \E key_value_str \in KeyValueTexts :
        \E r \in {mender_utils_string_to_key_value_list(key_value_str, util.list)} :
            util' = KeyValue("string_to_key_value_list_onto", util.list, util.added,
                             Some(key_value_str), r.ret, r.list)
    /\ UNCHANGED <<api_vars, client>>

free_linked_list ==
    /\ util.list # <<>>
    /\ util' = KeyValue("free_linked_list", <<>>, <<>>, NULL, MENDER_OK, <<>>)
    /\ UNCHANGED <<api_vars, client>>

KeyValueInit ==
    /\ api_state = "uninit"
    /\ mender_api_config = [device_type |-> "dev-A", tenant_token |-> NULL]
    /\ mender_api_jwt = NULL
    /\ artifact_name = NULL
    /\ mender_artifact_ctx = NULL
    /\ last = NoCall
    /\ client = NoClient
    /\ util = KeyValue("none", <<>>, <<>>, NULL, MENDER_OK, <<>>)

KeyValueNext ==
    \/ create_key_value_node
    \/ key_value_list_to_string
    \/ string_to_key_value_list
    \/ string_to_key_value_list_onto
    \/ free_linked_list

KeyValueSpec == KeyValueInit /\ [][KeyValueNext]_vars

-----------------------------------------------------------------------------
(* The keystores of mender-utils.c.  A keystore is an array of items, the   *)
(* item of index i being element i + 1 of the sequence; a cJSON object is   *)
(* the sequence of its children [string, valuestring].  util holds the      *)
(* keystore of the caller and the length n it was created with, the cJSON   *)
(* object and the keystore that the last conversion or copy produced, and   *)
(* the caller's keystore before the call.                                    *)

MaxKeystoreLength == 2      \* length given to mender_utils_keystore_new

mender_utils_keystore_new(length) ==
    Some([index \in 1..(length + 1) |-> Item(NULL, NULL)])

mender_utils_keystore_set_item(keystore, index, name, value) ==
    [ret |-> MENDER_OK,
     keystore |-> Some([Val(keystore) EXCEPT
                            ![index + 1] = Item(IF name # NULL THEN Some(Val(name)) ELSE NULL,
                                                IF value # NULL THEN Some(Val(value)) ELSE NULL)])]

\* a copy that leaves out the last entry: the copy that C17_SentinelLengthAndCopy
\* rules out
RECURSIVE CopyItems_but_last(_, _, _, _)
CopyItems_but_last(dst, src, index, length) ==
    IF index + 1 < length
    THEN CopyItems_but_last(
            mender_utils_keystore_set_item(dst, index, Val(src)[index + 1].name,
                                           Val(src)[index + 1].value).keystore,
            src, index + 1, length)
    ELSE dst

\* the loop of mender_utils_keystore_copy
RECURSIVE CopyItems(_, _, _, _)
CopyItems(dst, src, index, length) ==
    IF index < length
    THEN CopyItems(mender_utils_keystore_set_item(dst, index, Val(src)[index + 1].name,
                                                  Val(src)[index + 1].value).keystore,
                   src, index + 1, length)
    ELSE dst

mender_utils_keystore_copy(src_keystore) ==
    LET length == mender_utils_keystore_length(src_keystore)
    IN  [ret |-> MENDER_OK,
         keystore |-> CopyItems(mender_utils_keystore_new(length), src_keystore, 0, length)]

cJSON_CreateObject == <<>>

\* cJSON_AddStringToObject adds a child at the end, whatever the names of the
\* children there are
cJSON_AddStringToObject(object, name, string) ==
    Append(object, [string |-> Some(name), valuestring |-> Some(string)])

\* an object that keeps one child for a name: the conversion that
\* C16_KeystoreJsonRoundTrip rules out
RECURSIVE AddItems_last_write_wins(_, _, _)
AddItems_last_write_wins(object, keystore, index) ==
    IF Val(keystore)[index + 1].name # NULL /\ Val(keystore)[index + 1].value # NULL
    THEN AddItems_last_write_wins(
            cJSON_AddStringToObject(
                SelectSeq(object, LAMBDA child :
                                    child.string # Val(keystore)[index + 1].name),
                Val(Val(keystore)[index + 1].name),
                Val(Val(keystore)[index + 1].value)),
            keystore, index + 1)
    ELSE object

\* the loop of mender_utils_keystore_to_json
RECURSIVE AddItems(_, _, _)
AddItems(object, keystore, index) ==
    IF Val(keystore)[index + 1].name # NULL /\ Val(keystore)[index + 1].value # NULL
    THEN AddItems(cJSON_AddStringToObject(object, Val(Val(keystore)[index + 1].name),
                                          Val(Val(keystore)[index + 1].value)),
                  keystore, index + 1)
    ELSE object

mender_utils_keystore_to_json(keystore) ==
    [ret |-> MENDER_OK,
     object |-> Some(IF keystore # NULL THEN AddItems(cJSON_CreateObject, keystore, 0)
                     ELSE cJSON_CreateObject)]

\* the children that mender_utils_keystore_from_json takes: those with a name
\* and a string value
StringChildren(object) ==
    SelectSeq(object, LAMBDA child : child.string # NULL /\ child.valuestring # NULL)

\* the second loop of mender_utils_keystore_from_json
RECURSIVE SetItems(_, _, _)
SetItems(keystore, children, index) ==
    IF index < Len(children)
    THEN SetItems(mender_utils_keystore_set_item(keystore, index,
                                                 children[index + 1].string,
                                                 children[index + 1].valuestring).keystore,
                  children, index + 1)
    ELSE keystore

\* the previous keystore of the caller is deleted
mender_utils_keystore_from_json(object) ==
    IF object = NULL THEN [ret |-> MENDER_OK, keystore |-> NULL]
    ELSE [ret |-> MENDER_OK,
          keystore |-> SetItems(mender_utils_keystore_new(Len(StringChildren(Val(object)))),
                                StringChildren(Val(object)), 0)]

\* names and values of the callers, and objects that are not made from a keystore
ItemNames == {NULL, Some("n1"), Some("n2")}
ItemValues == {NULL, Some("v1"), Some("v2")}
OtherObjects ==
    {NULL,
     Some(<<[string |-> Some("n1"), valuestring |-> NULL],
            [string |-> Some("n2"), valuestring |-> Some("v1")]>>)}

Keystore(op, n, keystore, object, out, ret) ==
    [op |-> op, n |-> n, keystore |-> keystore, object |-> object, out |-> out, ret |-> ret,
     before |-> util.keystore]

keystore_new ==
    /\ util.keystore = NULL
    /\ \E length \in 0..MaxKeystoreLength :
        util' = Keystore("keystore_new", length, mender_utils_keystore_new(length),
                         NULL, NULL, MENDER_OK)
    /\ UNCHANGED <<api_vars, client>>

\* the callers give an index below the length the keystore was created with
keystore_set_item ==
    /\ util.keystore # NULL
    /\ \E index \in 0..(util.n - 1), name \in ItemNames, value \in ItemValues :
        LET r == mender_utils_keystore_set_item(util.keystore, index, name, value)
        IN  util' = Keystore("keystore_set_item", util.n, r.keystore, NULL, NULL, r.ret)
    /\ UNCHANGED <<api_vars, client>>

keystore_copy ==
    /\ LET r == mender_utils_keystore_copy(util.keystore)
       IN  util' = Keystore("keystore_copy", util.n, util.keystore, NULL, r.keystore, r.ret)
    /\ UNCHANGED <<api_vars, client>>

keystore_to_json ==
    /\ LET r == mender_utils_keystore_to_json(util.keystore)
       IN  util' = Keystore("keystore_to_json", util.n, util.keystore, r.object, NULL, r.ret)
    /\ UNCHANGED <<api_vars, client>>

\* the object is the one made from the keystore, or another one
keystore_from_json ==
    /\ util.op = "keystore_to_json"
    /\ \E object \in {util.object} \cup OtherObjects :
        LET r == mender_utils_keystore_from_json(object)
        IN  util' = Keystore("keystore_from_json", util.n, util.keystore, object,
                             r.keystore, r.ret)
    /\ UNCHANGED <<api_vars, client>>

keystore_delete ==
    /\ util.keystore # NULL
    /\ util' = Keystore("keystore_delete", 0, NULL, NULL, NULL, MENDER_OK)
    /\ UNCHANGED <<api_vars, client>>

KeystoreInit ==
    /\ api_state = "uninit"
    /\ mender_api_config = [device_type |-> "dev-A", tenant_token |-> NULL]
    /\ mender_api_jwt = NULL
    /\ artifact_name = NULL
    /\ mender_artifact_ctx = NULL
    /\ last = NoCall
    /\ client = NoClient
    /\ util = [op |-> "none", n |-> 0, keystore |-> NULL, object |-> NULL, out |-> NULL,
               ret |-> MENDER_OK, before |-> NULL]

KeystoreNext ==
    \/ keystore_new
    \/ keystore_set_item
    \/ keystore_copy
    \/ keystore_to_json
    \/ keystore_from_json
    \/ keystore_delete

KeystoreSpec == KeystoreInit /\ [][KeystoreNext]_vars

-----------------------------------------------------------------------------
(* The scheduler of the work units (spec section 4.6, mender-client.h).      *)
(* client.interval[w] is the configured poll interval of work unit w,        *)
(* client.due[w] says that the interval of w has elapsed, client.requested[w]*)
(* that mender_client_execute asked for w, client.running is the work unit   *)
(* that executes, with what fired it, and client.event the last thing that   *)
(* happened.                                                                  *)

Works == {"authentication", "update"}
PollIntervals == {-1, 60}
NoWork == [work |-> "none", periodic |-> FALSE, explicit |-> FALSE]

\* an execute that leaves out the work units without a period: the trigger
\* that C23_NegativeIntervalStillExecutes rules out
mender_client_execute_periodic_only ==
    /\ client.state = "scheduler"
    /\ client' = IF client.active
                 THEN [client EXCEPT
                        !.requested = [w \in Works |-> @[w] \/ client.interval[w] >= 0],
                        !.event = "execute"]
                 ELSE [client EXCEPT !.event = "execute_refused"]
    /\ UNCHANGED <<api_vars, util>>

mender_client_activate ==
    /\ client.state = "scheduler"
    /\ ~client.active
    /\ client' = [client EXCEPT !.active = TRUE, !.event = "activate"]
    /\ UNCHANGED <<api_vars, util>>

\* deactivating stops the synchronisation: what was due or asked for is dropped
mender_client_deactivate ==
    /\ client.state = "scheduler"
    /\ client.active
    /\ client' = [client EXCEPT !.active = FALSE,
                                !.due = [w \in Works |-> FALSE],
                                !.requested = [w \in Works |-> FALSE],
                                !.event = "deactivate"]
    /\ UNCHANGED <<api_vars, util>>

\* an explicit trigger asks for the authentication and the update work
mender_client_execute ==
    /\ client.state = "scheduler"
    /\ client' = IF client.active
                 THEN [client EXCEPT !.requested = [w \in Works |-> TRUE],
                                     !.event = "execute"]
                 ELSE [client EXCEPT !.event = "execute_refused"]
    /\ UNCHANGED <<api_vars, util>>

\* the interval of a work unit elapses; a negative interval never does
interval_elapses(w) ==
    /\ client.state = "scheduler"
    /\ client.active
    /\ client.interval[w] >= 0
    /\ ~client.due[w]
    /\ client' = [client EXCEPT !.due[w] = TRUE, !.event = "interval"]
    /\ UNCHANGED <<api_vars, util>>

\* the scheduler fires a work unit: one at a time
work_starts(w) ==
    /\ client.state = "scheduler"
    /\ client.active
    /\ client.running.work = "none"
    /\ client.due[w] \/ client.requested[w]
    /\ client' = [client EXCEPT
                    !.running = [work |-> w, periodic |-> client.due[w],
                                 explicit |-> client.requested[w]],
                    !.due[w] = FALSE, !.requested[w] = FALSE, !.event = "start"]
    /\ UNCHANGED <<api_vars, util>>

\* the work unit runs to completion
work_ends ==
    /\ client.state = "scheduler"
    /\ client.running.work # "none"
    /\ client' = [client EXCEPT !.running = NoWork, !.event = "end"]
    /\ UNCHANGED <<api_vars, util>>

\* mender_client_init with the intervals of the configuration
SchedulerInit ==
    /\ api_state = "uninit"
    /\ mender_api_config = [device_type |-> "dev-A", tenant_token |-> NULL]
    /\ mender_api_jwt = NULL
    /\ artifact_name = NULL
    /\ mender_artifact_ctx = NULL
    /\ last = NoCall
    /\ util = NoUtil
    /\ \E interval \in [Works -> PollIntervals] :
        client = [state |-> "scheduler", active |-> FALSE, interval |-> interval,
                  due |-> [w \in Works |-> FALSE], requested |-> [w \in Works |-> FALSE],
                  running |-> NoWork, event |-> "init"]

SchedulerNext ==
    \/ mender_client_activate
    \/ mender_client_deactivate
    \/ mender_client_execute
    \/ \E w \in Works : interval_elapses(w)
    \/ \E w \in Works : work_starts(w)
    \/ work_ends

\* the scheduler gives every work unit that waits its turn, and a work unit
\* that executes ends
SchedulerSpec ==
    /\ SchedulerInit
    /\ [][SchedulerNext]_vars
    /\ \A w \in Works : SF_vars(work_starts(w))
    /\ WF_vars(work_ends)

-----------------------------------------------------------------------------
(* The string utilities of mender-utils.c.  A C string is the sequence of    *)
(* its characters before the terminator; util holds the last call: the       *)
(* function, its arguments, what it returned and, for the comparisons,       *)
(* whether a character before the start of s1 was read.                      *)

MaxStringLen == 3

\* the value a uint16_t holds after a store
uint16_t(x) == x % 65536

desc ==
    << 
[status |-> uint16_t(100), str |-> "Continue"],
       [status |-> uint16_t(101), str |-> "Switching Protocols"],
       [status |-> uint16_t(103), str |-> "Early Hints"],
       [status |-> uint16_t(200), str |-> "OK"],
       [status |-> uint16_t(201), str |-> "Created"],
       [status |-> uint16_t(202), str |-> "Accepted"],
       [status |-> uint16_t(203), str |-> "Non-Authoritative Information"],
       [status |-> uint16_t(204), str |-> "No Content"],
       [status |-> uint16_t(205), str |-> "Reset Content"],
       [status |-> uint16_t(206), str |-> "Partial Content"],
       [status |-> uint16_t(300), str |-> "Multiple Choices"],
       [status |-> uint16_t(301), str |-> "Moved Permanently"],
       [status |-> uint16_t(302), str |-> "Found"],
       [status |-> uint16_t(303), str |-> "See Other"],
       [status |-> uint16_t(304), str |-> "Not Modified"],
       [status |-> uint16_t(307), str |-> "Temporary Redirect"],
       [status |-> uint16_t(308), str |-> "Permanent Redirect"],
       [status |-> uint16_t(400), str |-> "Bad Request"],
       [status |-> uint16_t(401), str |-> "Unauthorized"],
       [status |-> uint16_t(402), str |-> "Payment Required"],
       [status |-> uint16_t(403), str |-> "Forbidden"],
       [status |-> uint16_t(404), str |-> "Not Found"],
       [status |-> uint16_t(405), str |-> "Method Not Allowed"],
       [status |-> uint16_t(406), str |-> "Not Acceptable"],
       [status |-> uint16_t(407), str |-> "Proxy Authentication Required"],
       [status |-> uint16_t(408), str |-> "Request Timeout"],
       [status |-> uint16_t(409), str |-> "Conflict"],
       [status |-> uint16_t(410), str |-> "Gone"],
       [status |-> uint16_t(411), str |-> "Length Required"],
       [status |-> uint16_t(412), str |-> "Precondition Failed"],
       [status |-> uint16_t(413), str |-> "Payload Too Large"],
       [status |-> uint16_t(414), str |-> "URI Too Long"],
       [status |-> uint16_t(415), str |-> "Unsupported Media Type"],
       [status |-> uint16_t(416), str |-> "Range Not Satisfiable"],
       [status |-> uint16_t(417), str |-> "Expectation Failed"],
       [status |-> uint16_t(418), str |-> "I'm a teapot"],
       [status |-> uint16_t(422), str |-> "Unprocessable Entity"],
       [status |-> uint16_t(425), str |-> "Too Early"],
       [status |-> uint16_t(426), str |-> "Upgrade Required"],
       [status |-> uint16_t(428), str |-> "Precondition Required"],
       [status |-> uint16_t(429), str |-> "Too Many Requests"],
       [status |-> uint16_t(431), str |-> "Request Header Fields Too Large"],
       [status |-> uint16_t(451), str |-> "Unavailable For Legal Reasons"],
       [status |-> uint16_t(500), str |-> "Internal Server Error"],
       [status |-> uint16_t(501), str |-> "Not Implemented"],
       [status |-> uint16_t(502), str |-> "Bad Gateway"],
       [status |-> uint16_t(503), str |-> "Service Unavailable"],
       [status |-> uint16_t(504), str |-> "Gateway Timeout"],
       [status |-> uint16_t(505), str |-> "HTTP Version Not Supported"],
       [status |-> uint16_t(506), str |-> "Variant Also Negotiates"],
       [status |-> uint16_t(507), str |-> "Insufficient Storage"],
       [status |-> uint16_t(508), str |-> "Loop Detected"],
       [status |-> uint16_t(510), str |-> "Not Extended"],
       [status |-> uint16_t(511), str |-> "Network Authentication Required"] >>

\* a comparison made in 16 bits: the truncation of status that
\* C25_PhraseExactlyForTabulatedCodes rules out
StatusEquals_in_16_bits(entry, status) == entry.status = uint16_t(status)

\* desc[index].status == status: the uint16_t is promoted to int, which keeps
\* its value, and compared with the int
StatusEquals(entry, status) == entry.status = status

RECURSIVE http_status_from(_, _)
http_status_from(index, status) ==
    IF index > Len(desc) THEN NULL
    ELSE IF StatusEquals(desc[index], status) THEN Some(desc[index].str)
    ELSE http_status_from(index + 1, status)

mender_utils_http_status_to_string(status) == http_status_from(1, status)

\* the codes of the table
TableCodes == { desc[i].status : i \in 1..Len(desc) }

\* the values of int the function is called with: the codes of the table, the
\* same codes 2^16 higher and lower, and codes around them
HttpStatusValues ==
    TableCodes
        \cup { c + 65536 : c \in TableCodes } \cup { c - 65536 : c \in TableCodes }
        \cup {-1, 0, 1, 99, 102, 104, 207, 305, 306, 419, 509, 512, 600, 65535, 65536}

Chars == {"a", "b"}
CStrings == UNION { [1..n -> Chars] : n \in 0..MaxStringLen }

\* s[i] of a C string, i counted from 1: the zero byte after the last character
CharAt(s, i) == IF i <= Len(s) THEN s[i] ELSE NUL

\* does needle stand in haystack at position i
OccursAt(haystack, needle, i) ==
    /\ i >= 1
    /\ i + Len(needle) - 1 <= Len(haystack)
    /\ \A k \in 1..Len(needle) : haystack[i + k - 1] = needle[k]

\* strstr on the part of haystack that begins at from: the first occurrence,
\* as a position in haystack, or NULL
RECURSIVE strstr(_, _, _)
strstr(haystack, needle, from) ==
    IF from + Len(needle) - 1 > Len(haystack) THEN NULL
    ELSE IF OccursAt(haystack, needle, from) THEN Some(from)
    ELSE strstr(haystack, needle, from + 1)

\* a loop that goes on after the occurrence found instead of one character
\* after its start: the search that C26_RightMostOccurrence rules out
RECURSIVE strrstr_loop_after_occurrence(_, _, _, _)
strrstr_loop_after_occurrence(haystack, needle, from, r) ==
    LET p == strstr(haystack, needle, from)
    IN  IF p = NULL THEN r
        ELSE strrstr_loop_after_occurrence(haystack, needle, Val(p) + Len(needle), p)

\* while (1) { p = strstr(haystack, needle); if (!p) return r; r = p;
\* haystack = p + 1; }
RECURSIVE strrstr_loop(_, _, _, _)
strrstr_loop(haystack, needle, from, r) ==
    LET p == strstr(haystack, needle, from)
    IN  IF p = NULL THEN r
        ELSE strrstr_loop(haystack, needle, Val(p) + 1, p)

\* the result is a position in haystack, Len(haystack) + 1 being its end
mender_utils_strrstr(haystack, needle) ==
    IF CharAt(needle, 1) = NUL THEN Some(Len(haystack) + 1)
    ELSE strrstr_loop(haystack, needle, 1, NULL)

\* the character at position i of the memory s1 lies in: before[..] are the
\* characters in front of s1, whatever they are
MemAt(before, s1, i) ==
    IF i >= 1 THEN CharAt(s1, i) ELSE before[Len(before) + i]

\* strncmp(s1 + off - 1, s2, n), from the k-th character on: whether the two
\* are equal, and whether a character in front of s1 was read
RECURSIVE strncmp(_, _, _, _, _, _)
strncmp(before, s1, off, s2, n, k) ==
    IF k > n THEN [equal |-> TRUE, outside |-> FALSE]
    ELSE LET c1 == MemAt(before, s1, off + k - 1)
             c2 == CharAt(s2, k)
             here == off + k - 1 < 1
         IN  IF c1 # c2 THEN [equal |-> FALSE, outside |-> here]
             ELSE IF c1 = NUL THEN [equal |-> TRUE, outside |-> here]
             ELSE LET rest == strncmp(before, s1, off, s2, n, k + 1)
                  IN  [equal |-> rest.equal, outside |-> here \/ rest.outside]

mender_utils_strbeginwith(s1, s2) ==
    IF s1 = NULL \/ s2 = NULL THEN [equal |-> FALSE, outside |-> FALSE]
    ELSE strncmp(<<>>, Val(s1), 1, Val(s2), Len(Val(s2)), 1)

\* s1 + strlen(s1) - strlen(s2) lies in front of s1 when s2 is the longer
mender_utils_strendwith(before, s1, s2) ==
    IF s1 = NULL \/ s2 = NULL THEN [equal |-> FALSE, outside |-> FALSE]
    ELSE strncmp(before, Val(s1), 1 + Len(Val(s1)) - Len(Val(s2)), Val(s2), Len(Val(s2)), 1)

StringPointers == {NULL} \cup { Some(s) : s \in CStrings }

\* the memory in front of s1 that a comparison with s2 can reach
Before(s1, s2) ==
    IF s1 = NULL \/ s2 = NULL \/ Len(Val(s2)) <= Len(Val(s1)) THEN {<<>>}
    ELSE [1..(Len(Val(s2)) - Len(Val(s1))) -> Chars \cup {NUL}]

StringCall(op, args, result, outside) ==
    [op |-> op, args |-> args, result |-> result, outside |-> outside]

http_status_to_string ==
    /\ util = NoUtil
    /\ \E status \in HttpStatusValues :
        util' = StringCall("http_status_to_string", <<status>>,
                           mender_utils_http_status_to_string(status), FALSE)
    /\ UNCHANGED <<api_vars, client>>

strrstr ==
    /\ util = NoUtil
    /\ \E haystack \in CStrings, needle \in CStrings :
        util' = StringCall("strrstr", <<haystack, needle>>,
                           mender_utils_strrstr(haystack, needle), FALSE)
    /\ UNCHANGED <<api_vars, client>>

strbeginwith ==
    /\ util = NoUtil
    /\ \E s1 \in StringPointers, s2 \in StringPointers :
        \E r \in {mender_utils_strbeginwith(s1, s2)} :
            util' = StringCall("strbeginwith", <<s1, s2>>, r.equal, r.outside)
    /\ UNCHANGED <<api_vars, client>>

strendwith ==
    /\ util = NoUtil
    /\ \E s1 \in StringPointers, s2 \in StringPointers :
        \E before \in Before(s1, s2) :
            \E r \in {mender_utils_strendwith(before, s1, s2)} :
                util' = StringCall("strendwith", <<s1, s2>>, r.equal, r.outside)
    /\ UNCHANGED <<api_vars, client>>

\* the caller takes the result
string_result_taken ==
    /\ util # NoUtil
    /\ util' = NoUtil
    /\ UNCHANGED <<api_vars, client>>

StringInit ==
    /\ api_state = "uninit"
    /\ mender_api_config = [device_type |-> "dev-A", tenant_token |-> NULL]
    /\ mender_api_jwt = NULL
    /\ artifact_name = NULL
    /\ mender_artifact_ctx = NULL
    /\ last = NoCall
    /\ client = NoClient
    /\ util = NoUtil

StringNext ==
    \/ http_status_to_string
    \/ strrstr
    \/ strbeginwith
    \/ strendwith
    \/ string_result_taken

StringSpec == StringInit /\ [][StringNext]_vars

-----------------------------------------------------------------------------
(* The text callback on its own, with bodies that may hold a zero byte.      *)
(* util.response is the buffer *response of the request, util.received the   *)
(* chunks the callback accepted so far, util.event and util.ret the last     *)
(* event and what the callback returned for it.                              *)

MaxChunks == 3

\* the chunks a body arrives in: characters and zero bytes
TextChunks == Strings({"a", NUL}, MaxBodyLen)

TextEvents ==
    { DataReceived(Some(c)) : c \in TextChunks }
        \cup {DataReceived(NULL), DataReceived(Some(<<>>)),
              Connected, Disconnected, Error, UnknownEvent}

\* the buffer and the chunks when the request begins
TextRequest(u) ==
    IF u = NoUtil THEN [response |-> NULL, received |-> <<>>] ELSE u

\* the HTTP client hands an event of the request to the callback
http_text_callback ==
    /\ Len(TextRequest(util).received) < MaxChunks
    /\ \E event \in TextEvents :
        \E r \in {mender_api_http_text_callback(event, TextRequest(util).response)} :
            util' = [op |-> "text_callback", event |-> event, ret |-> r.ret,
                     response |-> r.response,
                     received |-> IF event.type = "DATA_RECEIVED" /\ r.ret = MENDER_OK
                                  THEN Append(TextRequest(util).received, Val(event.data))
                                  ELSE TextRequest(util).received]
    /\ UNCHANGED <<api_vars, client>>

\* the request ends and the caller takes the response
text_request_ends ==
    /\ util # NoUtil
    /\ util' = NoUtil
    /\ UNCHANGED <<api_vars, client>>

TextInit ==
    /\ api_state = "uninit"
    /\ mender_api_config = [device_type |-> "dev-A", tenant_token |-> NULL]
    /\ mender_api_jwt = NULL
    /\ artifact_name = NULL
    /\ mender_artifact_ctx = NULL
    /\ last = NoCall
    /\ client = NoClient
    /\ util = NoUtil

TextNext ==
    \/ http_text_callback
    \/ text_request_ends

TextSpec == TextInit /\ [][TextNext]_vars

-----------------------------------------------------------------------------
(* The download callbacks on their own, with the events in any order.        *)
(* util.st is what the callback works on (the parser's context, the chunks   *)
(* the parser was handed, the module recorded), util.before the same before  *)
(* the last event, util.event that event, util.api which of the two          *)
(* callbacks took it and util.ret what it returned.                          *)

CallbackEvents ==
    {ArtifactConnected(created) : created \in BOOLEAN}
        \cup {ArtifactData(d, a.ret, a.module) :
                d \in {NULL, Some(<<>>), Some(<<"x">>)}, a \in ParserAnswers}
        \cup {ArtifactOther(type) : type \in {"DISCONNECTED", "ERROR", "UNKNOWN"}}

\* what the first event of a download finds: no context, or the context of an
\* earlier download
DownloadBegins ==
    {DownloadState(ctx, <<>>, NULL) :
        ctx \in {NULL, Some([size |-> DownloadBufferSize, made |-> "before"])}}

\* the HTTP client hands an event of the download to the callback
artifact_callback ==
    /\ \E st \in IF util = NoUtil THEN DownloadBegins ELSE {util.st} :
        /\ Len(st.parsed) < MaxArtifactLen
        /\ \E api \in BOOLEAN, event \in CallbackEvents :
            \E r \in {IF api THEN mender_api_http_artifact_callback(event, st)
                      ELSE mender_download_artifact_callback(event, st)} :
                util' = [op |-> "artifact_callback", api |-> api, event |-> event,
                         ret |-> r.ret, st |-> r.st, before |-> st]
    /\ UNCHANGED <<api_vars, client>>

\* the download ends
download_ends ==
    /\ util # NoUtil
    /\ util' = NoUtil
    /\ UNCHANGED <<api_vars, client>>

CallbackInit ==
    /\ api_state = "uninit"
    /\ mender_api_config = [device_type |-> "dev-A", tenant_token |-> NULL]
    /\ mender_api_jwt = NULL
    /\ artifact_name = NULL
    /\ mender_artifact_ctx = NULL
    /\ last = NoCall
    /\ client = NoClient
    /\ util = NoUtil

CallbackNext ==
    \/ artifact_callback
    \/ download_ends

CallbackSpec == CallbackInit /\ [][CallbackNext]_vars

-----------------------------------------------------------------------------
(* Properties of the calls.  Each is stated on the observation the caller   *)
(* holds when a call has returned.                                           *)

ServiceOps == {"check_for_deployment", "publish_deployment_status", "publish_inventory_data"}
DownloadOps == {"api_download_artifact", "download_artifact"}

\* the call op has run to its return
Called(op) == last.op = op /\ last.ret # "ABORT"

\* the number of requests the call handed to the HTTP client
Issued == Len(last.requests)

\* the i-th exchange of the call completed at the transport level with this status
CompletedAt(i, status) ==
    /\ i >= 1
    /\ i <= Len(last.http)
    /\ last.http[i].ret = MENDER_OK
    /\ last.http[i].status = status

\* the final exchange of the call completed at the transport level with this status
Completed(status) == CompletedAt(Len(last.http), status)

\* the bytes the server sent in an exchange
BodyOf(reply) ==
    Flatten([i \in 1..Len(reply.events) |->
                IF reply.events[i].data = NULL THEN <<>> ELSE Val(reply.events[i].data)])

\* the body of the final exchange of the call
FinalBody == BodyOf(last.http[Len(last.http)].reply)

\* the body holds "id", "artifact.artifact_name", "artifact.source.uri" and an
\* array "artifact.device_types_compatible"
AllMembersPresent(body) ==
    LET parsed == cJSON_Parse(Some(body))
    IN  /\ parsed # NULL
        /\ HasId(Val(parsed))
        /\ HasArtifactName(Val(parsed))
        /\ HasUri(Val(parsed))
        /\ HasDeviceTypes(Val(parsed))
        /\ DeviceTypesIsArray(Val(parsed))

\* C1: a check for deployment whose final status is 200 returns MENDER_OK only
\* if the body holds id, artifact.artifact_name, artifact.source.uri and the
\* array artifact.device_types_compatible; if any is missing it returns
\* MENDER_FAIL.
C1_OkOnlyWithAllMembers ==
    (Called("check_for_deployment") /\ Completed(200)) =>
        /\ last.ret = MENDER_OK => AllMembersPresent(FinalBody)
        /\ ~AllMembersPresent(FinalBody) => last.ret = MENDER_FAIL

IsV2(request) ==
    /\ request.op = "check_for_deployment_v2"
    /\ request.method = "POST"
    /\ request.path = MENDER_API_PATH_POST_NEXT_DEPLOYMENT_V2

IsV1(request) ==
    /\ request.op = "check_for_deployment_v1"
    /\ request.method = "GET"
    /\ request.path[1] = MENDER_API_PATH_GET_NEXT_DEPLOYMENT

\* the v1 GET follows the v2 POST exactly when the v2 exchange completed with
\* 404; no third request follows; a 404 from the v1 GET ends the call with
\* MENDER_FAIL
FallbackRule ==
    /\ Issued <= 2
    /\ Issued >= 1 => IsV2(last.requests[1])
    /\ Issued = 2 <=> CompletedAt(1, 404)
    /\ Issued = 2 => IsV1(last.requests[2])
    /\ CompletedAt(2, 404) => last.ret = MENDER_FAIL

\* C2 as stated: every check for deployment issues the v2 POST first, the v1
\* GET if and only if the v2 exchange completed with 404, at most two requests,
\* and fails on a 404 from the v1 GET.
C2_AlwaysIssuesV2First ==
    Called("check_for_deployment") => (Issued >= 1 /\ FallbackRule)

\* C2: a check for deployment issues no request and returns MENDER_FAIL when
\* the stored provides cannot be read; otherwise it issues the v2 POST first,
\* the v1 GET if and only if the v2 exchange completed with 404, at most two
\* requests, and fails on a 404 from the v1 GET.
C2_V2FirstUnlessNoRequest ==
    Called("check_for_deployment") =>
        /\ Issued = 0 <=> last.args[1].ret = MENDER_FAIL
        /\ Issued = 0 => last.ret = MENDER_FAIL
        /\ FallbackRule

\* a call fell back to the v1 GET, which was answered with 404
C2_Witness ==
    /\ Called("check_for_deployment")
    /\ Issued = 2
    /\ CompletedAt(2, 404)

\* C3: the outcome of a check for deployment follows the final HTTP status:
\* 204 gives MENDER_NOT_FOUND, a status other than 200 and 204 gives
\* MENDER_FAIL, and MENDER_OK is returned for status 200 only.
C3_OutcomeByFinalStatus ==
    Called("check_for_deployment") =>
        /\ Completed(204) => last.ret = MENDER_NOT_FOUND
        /\ \A status \in Statuses \ {200, 204} : Completed(status) => last.ret = MENDER_FAIL
        /\ last.ret = MENDER_OK => Completed(200)
        /\ last.ret = MENDER_NOT_FOUND => Completed(204)
        /\ MENDER_NOT_FOUND \notin {MENDER_OK, MENDER_FAIL}

\* the v1 GET of a call was answered with 204
C3_Witness ==
    /\ Called("check_for_deployment")
    /\ Issued = 2
    /\ Completed(204)
    /\ last.ret = MENDER_NOT_FOUND

\* C4: an authentication returns MENDER_OK exactly when its POST completes
\* with status 200 and a body that is not empty; the token is then the body as
\* sent and mender_api_is_authenticated holds; it fails for every other status.
C4_AuthenticationOkOn200WithBody ==
    Called("perform_authentication") =>
        /\ last.ret = MENDER_OK <=>
                (/\ Issued = 1
                 /\ last.requests[1].method = "POST"
                 /\ last.requests[1].path = MENDER_API_PATH_POST_AUTHENTICATION_REQUESTS
                 /\ Completed(200)
                 /\ FinalBody # <<>>)
        /\ last.ret = MENDER_OK =>
                (mender_api_jwt = Some(FinalBody) /\ mender_api_is_authenticated)
        /\ last.ret # MENDER_OK => last.ret = MENDER_FAIL

\* an authentication succeeded with a token that arrived in two chunks
C4_Witness ==
    /\ Called("perform_authentication")
    /\ last.ret = MENDER_OK
    /\ Len(last.http[1].reply.events) = 4
    /\ Len(Val(mender_api_jwt)) = 2

\* C5: the client holds at most one token; a successful authentication
\* replaces the token held before, and no request carries a token other than
\* the one held; after mender_api_exit there is no token and
\* mender_api_is_authenticated is false; a second mender_api_exit changes
\* nothing.
C5_OneTokenReplacedAndCleared ==
    /\ mender_api_jwt = NULL \/ Len(mender_api_jwt) = 1
    /\ (Called("perform_authentication") /\ last.ret = MENDER_OK) =>
            mender_api_jwt = Some(FinalBody)
    /\ \A i \in 1..Issued : last.requests[i].jwt \in {NULL, mender_api_jwt}
    /\ Called("exit") => (mender_api_jwt = NULL /\ ~mender_api_is_authenticated)
    /\ (Called("exit") /\ last.before.api_state = "exit") => Snapshot = last.before

\* an authenticated client authenticated again and holds another token
C5_Witness ==
    /\ Called("perform_authentication")
    /\ last.ret = MENDER_OK
    /\ last.before.mender_api_jwt # NULL
    /\ mender_api_jwt # last.before.mender_api_jwt

\* mender_api_exit was called on a client already released
C5_SecondExit == Called("exit") /\ last.before.api_state = "exit"

\* every request of the kinds given that an authenticated client issued carries
\* the token the client holds
CarryToken(ops) ==
    (last.before.mender_api_jwt # NULL /\ last.op \in ops) =>
        \A i \in 1..Issued :
            /\ last.requests[i].jwt # NULL
            /\ last.requests[i].jwt = mender_api_jwt

\* C6 as stated: when the client is authenticated, every request other than the
\* authentication request (check for deployment v2 and v1, status publish,
\* inventory publish and artifact download) carries the current token.
C6_AllRequestsCarryToken == CarryToken(ServiceOps \cup DownloadOps)

\* C6: when the client is authenticated, every request of a check for
\* deployment (v2 and v1), a status publish and an inventory publish carries
\* the current token; the artifact download is not among them.
C6_ServiceRequestsCarryToken == CarryToken(ServiceOps)

\* an authenticated client fell back to the v1 GET
C6_Witness ==
    /\ Called("check_for_deployment")
    /\ last.before.mender_api_jwt # NULL
    /\ Issued = 2
    /\ last.requests[2].jwt = mender_api_jwt

\* C7: the GET of an artifact download carries neither the session token nor a
\* signature, whether or not the client is authenticated.
C7_DownloadWithoutTokenAndSignature ==
    last.op \in DownloadOps =>
        /\ Issued = 1
        /\ last.requests[1].method = "GET"
        /\ last.requests[1].path = last.args[1]
        /\ last.requests[1].jwt = NULL
        /\ last.requests[1].signature = NULL

\* an authenticated client downloaded an artifact
C7_Witness ==
    /\ last.op \in DownloadOps
    /\ last.before.mender_api_jwt # NULL
    /\ mender_api_is_authenticated
    /\ Completed(200)
    /\ last.ret = MENDER_OK

\* C8: when a check for deployment, a status publish or an inventory publish
\* is answered with 401, the token is discarded: mender_api_is_authenticated
\* is false when the call returns.
C8_TokenDiscardedOn401 ==
    (last.op \in ServiceOps /\ Completed(401)) => ~mender_api_is_authenticated

\* the PUT to the status path of the deployment completed with 204
StatusPutCompleted204 ==
    /\ Issued = 1
    /\ last.requests[1].method = "PUT"
    /\ last.requests[1].path = StatusPath(last.args[1])
    /\ Completed(204)

\* C9 as stated: a status publish returns MENDER_OK if and only if the PUT to
\* the status path of the deployment completes with 204, returns MENDER_FAIL
\* otherwise, and sends exactly one request.
C9_ExactlyOneRequest ==
    Called("publish_deployment_status") =>
        /\ last.ret = MENDER_OK <=> StatusPutCompleted204
        /\ last.ret # MENDER_OK => last.ret = MENDER_FAIL
        /\ Issued = 1

\* C9: a status publish returns MENDER_OK if and only if the PUT to the status
\* path of the deployment completes with 204 and MENDER_FAIL otherwise (status
\* 200 included); it sends exactly one request when the status is one of the
\* six deployment statuses and none when it is not.
C9_OkIffPut204 ==
    Called("publish_deployment_status") =>
        /\ last.ret = MENDER_OK <=> StatusPutCompleted204
        /\ last.ret # MENDER_OK => last.ret = MENDER_FAIL
        /\ Completed(200) => last.ret = MENDER_FAIL
        /\ last.args[2] \in DeploymentStatuses => Issued = 1
        /\ last.args[2] \notin DeploymentStatuses => Issued = 0

\* a status publish was answered with 200
C9_Witness ==
    /\ Called("publish_deployment_status")
    /\ Completed(200)
    /\ last.ret = MENDER_FAIL

\* the events of the download's exchange
DownloadEvents == last.http[1].reply.events

\* C10: an artifact download returns MENDER_OK only if the HTTP status is 200
\* and every chunk handed to the parser was accepted; it returns MENDER_FAIL if
\* the status is not 200, if the parser rejected a chunk, or if the transport
\* raised an ERROR event.
C10_DownloadOkOn200AndParsed ==
    last.op \in DownloadOps =>
        /\ last.ret = MENDER_OK =>
                /\ Completed(200)
                /\ \A i \in 1..Len(DownloadEvents) :
                        DownloadEvents[i].type = "DATA_RECEIVED" =>
                            /\ \E j \in 1..Len(last.parsed) :
                                    last.parsed[j].data = Val(DownloadEvents[i].data)
                            /\ DownloadEvents[i].ret = MENDER_OK
                /\ Len(last.parsed) =
                        Cardinality({i \in 1..Len(DownloadEvents) :
                                        DownloadEvents[i].type = "DATA_RECEIVED"})
        /\ last.http[1].reply.status # 200 => last.ret = MENDER_FAIL
        /\ (\E i \in 1..Len(DownloadEvents) :
                /\ DownloadEvents[i].type = "DATA_RECEIVED"
                /\ DownloadEvents[i].ret # MENDER_OK) => last.ret = MENDER_FAIL
        /\ (\E i \in 1..Len(DownloadEvents) : DownloadEvents[i].type = "ERROR") =>
                last.ret = MENDER_FAIL

\* the parser accepted the first chunk of a download answered with 200 and
\* rejected the second
C10_Witness ==
    /\ last.op \in DownloadOps
    /\ last.http[1].reply.status = 200
    /\ Len(last.parsed) = 2
    /\ DownloadEvents[3].ret = MENDER_FAIL
    /\ last.ret = MENDER_FAIL

-----------------------------------------------------------------------------
(* Properties of the deployment state machine (ClientSpec).                  *)

IsPrefix(s, t) == Len(s) <= Len(t) /\ \A i \in 1..Len(s) : s[i] = t[i]

\* the orders of the statuses of a deployment: downloading, installing,
\* optionally rebooting, then one terminal status
StatusOrders ==
    UNION {{<<"MENDER_DEPLOYMENT_STATUS_DOWNLOADING", "MENDER_DEPLOYMENT_STATUS_INSTALLING", t>>,
            <<"MENDER_DEPLOYMENT_STATUS_DOWNLOADING", "MENDER_DEPLOYMENT_STATUS_INSTALLING",
              "MENDER_DEPLOYMENT_STATUS_REBOOTING", t>>} : t \in TerminalStatuses}

\* the statuses of progress a deployment may have reported
ProgressPrefixes ==
    {p \in UNION {[1..n -> StatusValues] : n \in 0..3} :
        IsPrefix(p, <<"MENDER_DEPLOYMENT_STATUS_DOWNLOADING",
                      "MENDER_DEPLOYMENT_STATUS_INSTALLING",
                      "MENDER_DEPLOYMENT_STATUS_REBOOTING">>)}

ArtifactNameOf(request) ==
    IF request.op = "check_for_deployment_v2"
    THEN LET device_provides == Val(request.payload).device_provides
         IN  device_provides[Len(device_provides)][2]
    ELSE request.path[3]

\* C12: after a successful deployment the artifact name of the next
\* check-for-deployment requests is the artifact_name of that deployment,
\* without a new mender_api_init
C12_NextCheckUsesCommittedName ==
    (Called("check_for_deployment") /\ client.committed # NULL)
        => \A i \in 1..Len(last.requests) :
                ArtifactNameOf(last.requests[i]) = Val(client.committed)

-----------------------------------------------------------------------------
(* Properties of the key/value lists (KeyValueSpec).                         *)

NoSeparators(list) ==
    \A i \in 1..Len(list) :
        /\ \A j \in 1..Len(list[i].key) : list[i].key[j] \notin {US, RS}
        /\ \A j \in 1..Len(list[i].value) : list[i].value[j] \notin {US, RS}

\* C13: a list without separators in its keys and values, serialised and
\* parsed into an empty list, comes back as the same entries in the same order
C13_RoundTripIsIdentity ==
    (/\ util.op = "string_to_key_value_list"
     /\ NoSeparators(util.list)
     /\ util.text = Some(mender_utils_key_value_list_to_string(util.list)))
        => util.ret = MENDER_OK /\ util.out = util.list

\* C14: a list built by successive mender_utils_create_key_value_node calls
\* holds, from its head, the entries in the order they were added, duplicate
\* keys included
C14_ListInInsertionOrder ==
    util.op = "create_key_value_node" => util.list = util.added

\* the records of a text: its parts that a record separator ends, and the
\* part after the last record separator when there is one
RECURSIVE Records(_)
Records(str) ==
    IF str = <<>> THEN <<>>
    ELSE LET end == IF strchr(str, RS) = 0 THEN Len(str) + 1 ELSE strchr(str, RS)
         IN  <<SubSeq(str, 1, end - 1)>> \o Records(SubSeq(str, end + 1, Len(str)))

\* C15: the parser fails exactly when a record of its input has no unit
\* separator, wherever the record is; the empty text is accepted
C15_FailsIffRecordWithoutUnitSeparator ==
    util.op = "string_to_key_value_list"
        => (util.ret = MENDER_FAIL
                <=> \E i \in 1..Len(Records(Val(util.text))) :
                        strchr(Records(Val(util.text))[i], US) = 0)

-----------------------------------------------------------------------------
(* Properties of the keystores (KeystoreSpec).                               *)

\* the entries of a keystore before its end, as (name, value) pairs
Entries(keystore) ==
    [index \in 1..mender_utils_keystore_length(keystore) |->
        <<Val(Val(keystore)[index].name), Val(Val(keystore)[index].value)>>]

\* the same pairs, each as many times
SamePairs(a, b) ==
    \A pair \in {a[i] : i \in 1..Len(a)} \cup {b[i] : i \in 1..Len(b)} :
        Cardinality({i \in 1..Len(a) : a[i] = pair})
            = Cardinality({i \in 1..Len(b) : b[i] = pair})

\* every entry the keystore was created for has a name and a value
AllEntriesSet(keystore, n) ==
    keystore # NULL /\ \A index \in 1..n :
        Val(keystore)[index].name # NULL /\ Val(keystore)[index].value # NULL

\* C16: a keystore whose entries all have a name and a value, converted to a
\* JSON object and back, has the same length and the same (name, value)
\* pairs, entries with the same name included
C16_KeystoreJsonRoundTrip ==
    (/\ util.op = "keystore_from_json"
     /\ AllEntriesSet(util.keystore, util.n)
     /\ util.object = mender_utils_keystore_to_json(util.keystore).object)
        => /\ util.ret = MENDER_OK
           /\ mender_utils_keystore_length(util.out) = mender_utils_keystore_length(util.keystore)
           /\ mender_utils_keystore_length(util.out) = util.n
           /\ SamePairs(Entries(util.out), Entries(util.keystore))

\* a round trip of two entries with the same name and different values
C16_Witness ==
    /\ util.op = "keystore_from_json"
    /\ util.n = 2
    /\ AllEntriesSet(util.keystore, util.n)
    /\ util.object = mender_utils_keystore_to_json(util.keystore).object
    /\ Val(util.keystore)[1].name = Val(util.keystore)[2].name
    /\ Val(util.keystore)[1].value # Val(util.keystore)[2].value

\* the index of the first entry without a name or without a value
FirstAbsent(items) ==
    CHOOSE index \in 0..(Len(items) - 1) :
        /\ items[index + 1].name = NULL \/ items[index + 1].value = NULL
        /\ \A i \in 0..(index - 1) : items[i + 1].name # NULL /\ items[i + 1].value # NULL

\* C17: a keystore made by mender_utils_keystore_new(n) and changed by
\* mender_utils_keystore_set_item with indexes below n ends in a null entry
\* at index n, has length 0 when created, never has a length above n, has
\* the index of its first entry without name or value as its length, and
\* mender_utils_keystore_copy gives a keystore of the same length with equal
\* entries in the same order and leaves the source as it was
C17_SentinelLengthAndCopy ==
    /\ util.keystore # NULL =>
        /\ Len(Val(util.keystore)) = util.n + 1
        /\ Val(util.keystore)[util.n + 1] = Item(NULL, NULL)
        /\ mender_utils_keystore_length(util.keystore) <= util.n
        /\ mender_utils_keystore_length(util.keystore) = FirstAbsent(Val(util.keystore))
    /\ util.op = "keystore_new" => mender_utils_keystore_length(util.keystore) = 0
    /\ (util.op = "keystore_copy" /\ util.keystore # NULL) =>
        /\ util.ret = MENDER_OK
        /\ util.out # NULL
        /\ mender_utils_keystore_length(util.out) = mender_utils_keystore_length(util.keystore)
        /\ \A index \in 1..mender_utils_keystore_length(util.keystore) :
                Val(util.out)[index] = Val(util.keystore)[index]
        /\ Val(util.out)[mender_utils_keystore_length(util.out) + 1] = Item(NULL, NULL)
        /\ util.keystore = util.before

\* the copy of a keystore of two entries
C17_Witness ==
    /\ util.op = "keystore_copy"
    /\ util.n = 2
    /\ mender_utils_keystore_length(util.keystore) = 2
    /\ Val(util.keystore)[1] # Val(util.keystore)[2]

-----------------------------------------------------------------------------
(* Properties of the inventory publish, of the transport errors and of the   *)
(* download events (Spec).                                                    *)

\* C18: the body of the inventory PUT is the array of artifact_name,
\* rootfs-image.version with the same value, device_type, then the caller's
\* entries in the order of the keystore, mender_utils_keystore_length of
\* them; the call returns MENDER_OK exactly when the status is 200
C18_InventoryBodyAndOutcome ==
    Called("publish_inventory_data") =>
        LET inventory == last.args[1]
            length == mender_utils_keystore_length(inventory)
            body == Val(last.requests[1].payload)
        IN  /\ Issued = 1
            /\ last.requests[1].method = "PUT"
            /\ last.requests[1].path = MENDER_API_PATH_PUT_DEVICE_ATTRIBUTES
            /\ Len(body) = 3 + length
            /\ body[1] = [name |-> "artifact_name", value |-> Val(last.before.artifact_name)]
            /\ body[2] = [name |-> "rootfs-image.version",
                          value |-> Val(last.before.artifact_name)]
            /\ body[3] = [name |-> "device_type",
                          value |-> last.before.mender_api_config.device_type]
            /\ \A index \in 1..length :
                    body[3 + index] = [name |-> Val(Val(inventory)[index].name),
                                       value |-> Val(Val(inventory)[index].value)]
            /\ last.ret = MENDER_OK <=> Completed(200)

\* an accepted inventory of two entries with the same name
C18_Witness ==
    /\ Called("publish_inventory_data")
    /\ last.ret = MENDER_OK
    /\ mender_utils_keystore_length(last.args[1]) = 2
    /\ Val(last.args[1])[1].name = Val(last.args[1])[2].name

\* the i-th exchange of the call ended with a transport error
TransportError(i) == i >= 1 /\ i <= Len(last.http) /\ last.http[i].ret # MENDER_OK

\* C19: when an exchange of a service call ends with a transport error the
\* request is issued once more, and the call fails only if the retry fails too
C19_TransportErrorRetriedOnce ==
    \A op \in ServiceOps :
        (Called(op) /\ \E i \in 1..Issued : TransportError(i)) =>
            LET first == CHOOSE i \in 1..Issued :
                            TransportError(i) /\ \A j \in 1..(i - 1) : ~TransportError(j)
            IN  /\ Issued = first + 1
                /\ last.requests[first + 1] = last.requests[first]
                /\ last.ret # MENDER_OK => TransportError(first + 1)

\* an event at which the download ends: one the callback refuses, or a chunk
\* the parser refuses
Refused(event) ==
    \/ event.type = "CONNECTED" /\ ~event.created
    \/ event.type = "DATA_RECEIVED"
        /\ (event.data = NULL \/ Len(Val(event.data)) = 0 \/ event.ret # MENDER_OK)
    \/ event.type \notin {"CONNECTED", "DATA_RECEIVED", "DISCONNECTED"}

\* the events the HTTP client delivered: those up to the first one refused
DeliveredEvents(events) ==
    IF \E i \in 1..Len(events) : Refused(events[i])
    THEN SubSeq(events, 1, CHOOSE i \in 1..Len(events) :
                                Refused(events[i]) /\ \A j \in 1..(i - 1) : ~Refused(events[j]))
    ELSE events

\* the non-empty chunks among events, in their order
Chunks(events) ==
    LET data == SelectSeq(events, LAMBDA event :
                    event.type = "DATA_RECEIVED" /\ event.data # NULL
                    /\ Len(Val(event.data)) > 0)
    IN  [i \in 1..Len(data) |-> Val(data[i].data)]

\* C20: the chunks handed to the parser during a download are the non-empty
\* DATA_RECEIVED chunks the HTTP client delivered, each once and in the
\* order of delivery, all of them after the CONNECTED event and handed to
\* the context that event created
C20_ChunksParsedOnceInOrder ==
    \A op \in DownloadOps :
        Called(op) =>
            LET events == DeliveredEvents(last.http[1].reply.events)
            IN  /\ [i \in 1..Len(last.parsed) |-> last.parsed[i].data] = Chunks(events)
                /\ last.parsed # <<>> =>
                    /\ events[1].type = "CONNECTED"
                    /\ mender_artifact_ctx # NULL
                    /\ Val(mender_artifact_ctx).made = "now"
                    /\ \A i \in 1..Len(last.parsed) :
                            last.parsed[i].ctx = Val(mender_artifact_ctx)

\* a download of two different chunks that found the context of an earlier
\* download
C20_Witness ==
    /\ Called("download_artifact")
    /\ Len(last.parsed) = 2
    /\ last.parsed[1].data # last.parsed[2].data
    /\ last.before.mender_artifact_ctx # NULL

-----------------------------------------------------------------------------
(* Properties of the parser's context and of the utilities.                  *)

\* C21: the context a download creates on CONNECTED has an input buffer of
\* 2 * MENDER_ARTIFACT_STREAM_BLOCK_SIZE + mender_http_recv_buf_length bytes
C21_ContextHasDownloadBufferSize ==
    \A op \in DownloadOps :
        (Called(op) /\ mender_artifact_ctx # NULL /\ Val(mender_artifact_ctx).made = "now")
            => Val(mender_artifact_ctx).size = DownloadBufferSize

\* C22: when a call of the API returns, on success or on failure, it has
\* released every JSON value it parsed and every response buffer it
\* accumulated
C22_AllReleasedOnReturn ==
    \A op \in ServiceOps \cup {"perform_authentication"} :
        Called(op) => last.held = {}

\* C23: a work unit with a negative interval is never fired by its period,
\* and after every mender_client_execute issued while the client is active
\* each work unit is started for that trigger, unless the client is
\* deactivated first
C23_NegativeIntervalStillExecutes ==
    /\ [](\A w \in Works :
            (client.running.work = w /\ client.interval[w] < 0) => ~client.running.periodic)
    /\ \A w \in Works :
        (client.event = "execute" /\ client.active)
            ~> (\/ client.event = "start" /\ client.running.work = w /\ client.running.explicit
                \/ ~client.active)

\* a work unit without a period that executes after an explicit trigger
C23_Witness ==
    \E w \in Works :
        /\ client.running.work = w
        /\ client.interval[w] < 0
        /\ client.running.explicit

\* C24: mender_utils_deployment_status_to_string gives the six deployment
\* statuses six different lowercase strings and nothing for any other value,
\* and a status publish with such a value fails without a request, while a
\* publish of one of the six sends its string
C24_StatusStringsAndNoRequestForOthers ==
    /\ { mender_utils_deployment_status_to_string(s) : s \in DeploymentStatuses }
        = { Some(t) : t \in {"downloading", "installing", "rebooting", "success",
                             "failure", "already-installed"} }
    /\ \A s, t \in DeploymentStatuses :
        mender_utils_deployment_status_to_string(s)
            = mender_utils_deployment_status_to_string(t) => s = t
    /\ \A s \in StatusValues \ DeploymentStatuses :
        mender_utils_deployment_status_to_string(s) = NULL
    /\ Called("publish_deployment_status") =>
        /\ last.args[2] \notin DeploymentStatuses =>
            /\ last.ret = MENDER_FAIL
            /\ last.requests = <<>>
            /\ last.http = <<>>
        /\ last.args[2] \in DeploymentStatuses =>
            /\ Issued = 1
            /\ last.requests[1].payload
                = Some([status |-> Val(mender_utils_deployment_status_to_string(last.args[2]))])

\* a status publish was called with a value that is no deployment status
C24_Witness ==
    /\ Called("publish_deployment_status")
    /\ last.args[2] \notin DeploymentStatuses
    /\ last.before.api_state = "init"

\* C25: mender_utils_http_status_to_string returns the phrase of the table
\* for a code of the table and nothing for any other int: not for 0, for a
\* negative value, for 102 or 305, nor for a value that is a code of the table
\* modulo 2^16
C25_PhraseExactlyForTabulatedCodes ==
    /\ \A status \in {-1, 0, 102, 305, 65736} :
        mender_utils_http_status_to_string(status) = NULL
    /\ mender_utils_http_status_to_string(200) = Some("OK")
    /\ util.op = "http_status_to_string" =>
        /\ util.result # NULL <=> util.args[1] \in TableCodes
        /\ util.result # NULL =>
            \E i \in 1..Len(desc) :
                desc[i].status = util.args[1] /\ util.result = Some(desc[i].str)

\* the function was called with a code of the table plus 2^16
C25_Witness ==
    /\ util.op = "http_status_to_string"
    /\ util.args[1] \notin TableCodes
    /\ uint16_t(util.args[1]) \in TableCodes
    /\ util.result = NULL

\* the positions at which needle occurs in haystack
Occurrences(haystack, needle) ==
    { i \in 1..(Len(haystack) + 1) : OccursAt(haystack, needle, i) }

\* C26: mender_utils_strrstr returns the greatest position at which needle
\* occurs in haystack, also when occurrences overlap, nothing when needle does
\* not occur, and the end of haystack when needle is empty
C26_RightMostOccurrence ==
    util.op = "strrstr" =>
        LET haystack == util.args[1]
            needle == util.args[2]
            occ == Occurrences(haystack, needle)
        IN  /\ occ = {} <=> util.result = NULL
            /\ occ # {} =>
                /\ Val(util.result) \in occ
                /\ \A i \in occ : i <= Val(util.result)
            /\ needle = <<>> => util.result = Some(Len(haystack) + 1)

\* the right-most occurrence overlaps the one before it
C26_Witness ==
    /\ util.op = "strrstr"
    /\ util.args[2] # <<>>
    /\ util.result # NULL
    /\ \E i \in Occurrences(util.args[1], util.args[2]) :
        /\ i < Val(util.result)
        /\ i + Len(util.args[2]) > Val(util.result)

IsSuffix(s2, s1) ==
    /\ Len(s2) <= Len(s1)
    /\ \A k \in 1..Len(s2) : s1[Len(s1) - Len(s2) + k] = s2[k]

\* C27: mender_utils_strendwith(s1, s2) is true exactly when s2 is a suffix of
\* s1 and mender_utils_strbeginwith(s1, s2) exactly when s2 is a prefix of s1;
\* neither reads a character outside s1, and an absent argument gives false
C27_SuffixAndPrefixWithinS1 ==
    /\ util.op = "strbeginwith" =>
        /\ util.result <=>
            /\ util.args[1] # NULL
            /\ util.args[2] # NULL
            /\ IsPrefix(Val(util.args[2]), Val(util.args[1]))
        /\ ~util.outside
    /\ util.op = "strendwith" =>
        /\ util.result <=>
            /\ util.args[1] # NULL
            /\ util.args[2] # NULL
            /\ IsSuffix(Val(util.args[2]), Val(util.args[1]))
        /\ ~util.outside

\* C28: the authentication request, and no other request, carries a
\* signature, which is the signature of the payload it sends; it carries no
\* token; its payload holds id_data, pubkey and the tenant token exactly when
\* one is configured; and no request is sent when the public key, the identity
\* or the signature cannot be obtained
C28_OnlyAuthenticationSignedOverPayload ==
    /\ \A i \in 1..Issued :
        last.requests[i].signature # NULL <=> last.op = "perform_authentication"
    /\ Called("perform_authentication") =>
        /\ last.args[1] # "none" => Issued = 0
        /\ last.args[1] = "none" => Issued = 1
        /\ \A i \in 1..Issued :
            LET request == last.requests[i]
            IN  /\ request.payload # NULL
                /\ request.signature = Some(SignatureOf(Val(request.payload)))
                /\ request.jwt = NULL
                /\ Val(request.payload).id_data = <<Identity.name, Identity.value>>
                /\ Val(request.payload).pubkey = public_key_pem
                /\ Val(request.payload).tenant_token
                    = last.before.mender_api_config.tenant_token

\* an authentication request was sent for a client with a tenant token and a
\* token of an earlier authentication
C28_Witness ==
    /\ Called("perform_authentication")
    /\ Issued = 1
    /\ last.before.mender_api_config.tenant_token # NULL
    /\ last.before.mender_api_jwt # NULL

\* C29: once mender_api_init has returned MENDER_OK, and until
\* mender_api_exit, the artifact name is loaded: the assertion on it in check
\* for deployment and in inventory publish does not fail, and init does not
\* return MENDER_OK when the storage has no name to give
C29_ArtifactNameLoadedAfterInit ==
    /\ api_state = "init" => artifact_name # NULL
    /\ last.op \in {"check_for_deployment", "publish_inventory_data"} => last.ret # "ABORT"

\* the keys of the entries of device_provides, in the order they are sent
ProvidesKeys(request) ==
    [i \in 1..Len(Val(request.payload).device_provides) |->
        Val(request.payload).device_provides[i][1]]

\* C30: in device_provides of the v2 request every key is sent at most once,
\* also when the stored provides hold a key twice or a key named
\* artifact_name or device_type (only the last written value is sent)
C30_ProvidesKeysSentOnce ==
    Called("check_for_deployment") =>
        \A r \in 1..Issued :
            IsV2(last.requests[r]) =>
                \A i, j \in 1..Len(ProvidesKeys(last.requests[r])) :
                    ProvidesKeys(last.requests[r])[i] = ProvidesKeys(last.requests[r])[j]
                        => i = j

-----------------------------------------------------------------------------
(* Properties of what a call leaves behind.                                   *)

\* C31: an authentication that does not return MENDER_OK (a step before the
\* request failed, the transport failed, the status was not 200, or the 200
\* answer had no body) leaves the token as it was
C31_FailedAuthenticationKeepsToken ==
    (Called("perform_authentication") /\ last.ret # MENDER_OK) =>
        /\ mender_api_jwt = last.before.mender_api_jwt
        /\ mender_api_is_authenticated <=> last.before.mender_api_jwt # NULL

\* an authenticated client got a 200 answer without a body
C31_Witness ==
    /\ Called("perform_authentication")
    /\ last.ret # MENDER_OK
    /\ Completed(200)
    /\ last.before.mender_api_jwt # NULL
    /\ mender_api_jwt # NULL

\* C32: after the data events of a request, the response is the concatenation
\* of the chunks received, in the order they came, whatever the chunks hold,
\* zero bytes included
C32_ResponseIsConcatenation ==
    util.op = "text_callback" =>
        IF util.received = <<>>
        THEN util.response = NULL
        ELSE util.response = Some(Flatten(util.received))

\* C33: when a check for deployment falls back to v1, the response it treats
\* is the body of the v1 answer alone, and so is the descriptor it hands back:
\* nothing of the body of the 404 answer to v2 is left in it
C33_FallbackUsesV1BodyOnly ==
    (Called("check_for_deployment") /\ Issued = 2) =>
        /\ last.response = DeliverText(last.http[2].reply.events, NULL).response
        /\ last.http[2].ret = MENDER_OK =>
            \E malloc_zero_null \in BOOLEAN :
                LET t == TreatStatus(last.http[2].status,
                                     DeliverText(last.http[2].reply.events, NULL).response,
                                     malloc_zero_null)
                IN  last.ret = t.ret /\ last.deployment = t.deployment

\* the 404 answer to v2 had a body, and the v1 answer gave a deployment
C33_Witness ==
    /\ Called("check_for_deployment")
    /\ Issued = 2
    /\ DeliverText(last.http[1].reply.events, NULL).response # NULL
    /\ Completed(200)
    /\ last.ret = MENDER_OK

\* the last event reached the parser
ParserInvoked == util.st.parsed # util.before.parsed

\* C34: a download callback returns MENDER_FAIL without invoking the parser
\* for DATA_RECEIVED without data or of length zero and for DATA_RECEIVED when
\* there is no parser context, MENDER_FAIL for ERROR and for an event it does
\* not know, MENDER_OK without invoking the parser for DISCONNECTED, and for
\* CONNECTED MENDER_OK exactly when the context could be created
C34_ResultOfEachDownloadEvent ==
    util.op = "artifact_callback" =>
        /\ (/\ util.event.type = "DATA_RECEIVED"
            /\ \/ util.event.data = NULL
               \/ Len(Val(util.event.data)) = 0
               \/ util.before.ctx = NULL)
            => (util.ret = MENDER_FAIL /\ ~ParserInvoked)
        /\ util.event.type \in {"ERROR", "UNKNOWN"} => util.ret = MENDER_FAIL
        /\ util.event.type = "DISCONNECTED" => (util.ret = MENDER_OK /\ ~ParserInvoked)
        /\ util.event.type = "CONNECTED" =>
            /\ util.ret = MENDER_OK <=> util.event.created
            /\ util.ret = MENDER_OK => util.st.ctx # NULL
            /\ ~ParserInvoked

\* a chunk came before any context was created
C34_Witness ==
    /\ util.op = "artifact_callback"
    /\ util.event.type = "DATA_RECEIVED"
    /\ util.event.data = Some(<<"x">>)
    /\ util.before.ctx = NULL
    /\ util.ret = MENDER_FAIL

\* the module the parser recorded last among the first n events of a download
RECURSIVE RecordedModule(_, _)
RecordedModule(events, n) ==
    IF n = 0 THEN NULL
    ELSE IF events[n].type = "DATA_RECEIVED" /\ events[n].module # NULL THEN events[n].module
    ELSE RecordedModule(events, n - 1)

\* C35: mender_download_artifact writes the caller's update_module only when
\* it returns MENDER_OK, which it does when the transport succeeded with status
\* 200, and what it writes is the module the parser recorded in this download;
\* on every other return the caller's value is the one it had
C35_UpdateModuleWrittenOnlyOnOk ==
    Called("download_artifact") =>
        /\ last.ret = MENDER_OK <=> Completed(200)
        /\ last.ret = MENDER_OK =>
            last.update_module = RecordedModule(last.http[1].reply.events,
                                                Len(last.http[1].reply.events))
        /\ last.ret # MENDER_OK => last.update_module = last.args[2]

\* the parser recorded a module, the download failed and the caller's module
\* is the one it had
C35_Witness ==
    /\ Called("download_artifact")
    /\ last.ret # MENDER_OK
    /\ last.args[2] # NULL
    /\ RecordedModule(last.http[1].reply.events, Len(last.http[1].reply.events)) # NULL
    /\ last.update_module = last.args[2]

-----------------------------------------------------------------------------
(* Properties of the parser of key/value texts on a list that holds entries  *)
(* (KeyValueSpec).                                                            *)

\* the entry a record with a unit separator stands for
EntryOf(record) ==
    [key |-> SubSeq(record, 1, strchr(record, US) - 1),
     value |-> SubSeq(record, strchr(record, US) + 1, Len(record))]

\* the records of the text that have no unit separator
RecordsWithoutUnitSeparator(str) ==
    { i \in 1..Len(Records(str)) : strchr(Records(str)[i], US) = 0 }

\* C36: the parser does not roll back: when the k-th record is the first
\* without a unit separator it returns MENDER_FAIL and the list holds the
\* entries of the first k-1 records in front of the entries it held before;
\* the entries it held before are still there, unchanged, after every call
C36_NoRollbackOnFailure ==
    util.op = "string_to_key_value_list_onto" =>
        LET records == Records(Val(util.text))
            without == RecordsWithoutUnitSeparator(Val(util.text))
            new == Len(util.out) - Len(util.list)
        IN  /\ new >= 0
            /\ SubSeq(util.out, new + 1, Len(util.out)) = util.list
            /\ without # {} =>
                LET k == CHOOSE i \in without : \A j \in without : i <= j
                IN  /\ util.ret = MENDER_FAIL
                    /\ new = k - 1
                    /\ \A i \in 1..(k - 1) : util.out[k - i] = EntryOf(records[i])

\* C37: a check for deployment does not clear the descriptor when it rejects
\* a 200 answer: the id, the artifact name and the uri that the answer held
\* are in the caller's descriptor when the call returns; when the result is
\* "no deployment" (204) or a failure without a 200 answer, no field of the
\* descriptor is written
C37_DescriptorKeptOnRejection ==
    Called("check_for_deployment") =>
        /\ (Completed(200) /\ last.ret = MENDER_FAIL) =>
            LET parsed == cJSON_Parse(Some(FinalBody))
            IN  parsed # NULL =>
                    /\ HasId(Val(parsed)) => last.deployment.id # NULL
                    /\ (HasArtifact(Val(parsed)) /\ HasArtifactName(Val(parsed)))
                        => last.deployment.artifact_name # NULL
                    /\ (HasArtifact(Val(parsed)) /\ HasUri(Val(parsed)))
                        => last.deployment.uri # NULL
        /\ (last.ret = MENDER_NOT_FOUND \/ (last.ret = MENDER_FAIL /\ ~Completed(200)))
            => last.deployment = NoDeployment

\* a 200 answer with an id, an artifact name and a uri was rejected
C37_Witness ==
    /\ Called("check_for_deployment")
    /\ Completed(200)
    /\ last.ret = MENDER_FAIL
    /\ last.deployment.id # NULL
    /\ last.deployment.artifact_name # NULL
    /\ last.deployment.uri # NULL

=============================================================================
